---- MODULE Spec2Model ----
(***************************************************************************)
(* A model of the ftrack MCP server: the operation client                  *)
(* (src/src/ftrack-client.js) and the tool handlers that drive it          *)
(* (src/src/index.js).                                                     *)
(*                                                                         *)
(* JavaScript values are records [t, v]: t is the JavaScript type and v    *)
(* the sequence that spells the value (an array's v holds its elements).   *)
(* An Operation is a function from property names to JavaScript values; a  *)
(* property that is not set is not in its domain.  Texts (message pieces,  *)
(* response bodies) are records [s, arr]: s is the text, and s = "json"    *)
(* marks the JSON text of the array arr.  A message built by a template    *)
(* literal is the sequence of its pieces.                                  *)
(***************************************************************************)
EXTENDS Integers, Sequences, FiniteSets, TLC

VARIABLES proc, client, pc, inv, request, posts, resp, callOut, toolOut

vars == <<proc, client, pc, inv, request, posts, resp, callOut, toolOut>>

-----------------------------------------------------------------------------
(* Bounds of the model.                                                    *)

NumInv == 2
MaxOps == 2
MaxResults == 3

Invocations == 1 .. NumInv

-----------------------------------------------------------------------------
(* JavaScript values.                                                      *)

Undefined == [t |-> "undefined", v |-> <<>>]
Null == [t |-> "null", v |-> <<>>]
Str(s) == [t |-> "string", v |-> <<s>>]
Num(s) == [t |-> "number", v |-> <<s>>]
Bool(s) == [t |-> "boolean", v |-> <<s>>]
List(seq) == [t |-> "array", v |-> seq]
Object(name) == [t |-> "object", v |-> <<name>>]
\* An object literal { k: v, ... } : o maps its property names to their values.
ObjectLiteral(o) == [t |-> "literal", v |-> <<o>>]

\* ToBoolean: undefined, null, false, 0 and "" are falsy, all else is truthy.
Truthy(x) ==
  /\ x.t \notin {"undefined", "null"}
  /\ x # Bool("false")
  /\ x # Num("0")
  /\ x # Str("")

\* A default parameter value applies to undefined only (not to null).
Default(x, d) == IF x = Undefined THEN d ELSE x

\* The n-th positional argument of a call; a missing argument is undefined.
Arg(args, n) == IF n <= Len(args) THEN args[n] ELSE Undefined

RECURSIVE ToStr(_)
\* String conversion of a value inside a template literal; an array is its
\* elements' conversions joined by commas.
ToStr(x) ==
  CASE x.t = "undefined" -> "undefined"
    [] x.t = "null" -> "null"
    [] x.t = "array" ->
         IF x.v = <<>> THEN ""
         ELSE IF Len(x.v) = 1 THEN ToStr(x.v[1])
         ELSE ToStr(x.v[1]) \o "," \o ToStr([t |-> "array", v |-> Tail(x.v)])
    [] x.t = "object" -> "[object Object]"
    [] x.t = "literal" -> "[object Object]"
    [] OTHER -> x.v[1]

-----------------------------------------------------------------------------
(* Objects.                                                                *)

EmptyObject == [k \in {} |-> Undefined]

\* o.k = v, and a property of an object literal.
Put(o, k, v) == (k :> v) @@ o

\* { ...o, ...options } : the properties of options override those of o.
Spread(o, options) == options @@ o

\* A variant that sets the property whatever the value.
PutIfTruthy_Always(o, k, x) == Put(o, k, x)

\* if (x) operation.k = x;
PutIfTruthy(o, k, x) == IF Truthy(x) THEN Put(o, k, x) ELSE o

\* An options argument: given says whether the argument was passed at all.
NoOptions == [given |-> FALSE, map |-> EmptyObject]
Options(m) == [given |-> TRUE, map |-> m]

\* options = {} : the default of an options parameter.
DefaultOptions(options) == IF options.given THEN options.map ELSE EmptyObject

-----------------------------------------------------------------------------
(* The convenience methods of FtrackClient: the Operation each one builds  *)
(* and hands to callOne.                                                   *)

Action(name) == Put(EmptyObject, "action", Str(name))

query(expression) ==
  Put(Action("query"), "expression", expression)

parseQuery(expression) ==
  Put(Action("parse_query"), "expression", expression)

querySchemas == Action("query_schemas")

queryServerInformation == Action("query_server_information")

search(expression, entityType0, terms0, contextId0, objectTypeIds0) ==
  LET entityType == Default(entityType0, Null)
      terms == Default(terms0, Null)
      contextId == Default(contextId0, Null)
      objectTypeIds == Default(objectTypeIds0, Null)
      o0 == Put(Action("search"), "expression", expression)
      o1 == PutIfTruthy(o0, "entity_type", entityType)
      o2 == PutIfTruthy(o1, "terms", terms)
      o3 == PutIfTruthy(o2, "context_id", contextId)
  IN  PutIfTruthy(o3, "object_type_ids", objectTypeIds)

create(entityType, data) ==
  Put(Put(Action("create"), "entity_type", entityType), "entity_data", data)

\* A variant that passes the bare id.
KeyOf_Bare(entityId) == entityId

\* [entityId] : the one-element array holding the id.
KeyOf(entityId) == List(<<entityId>>)

update(entityType, entityId, data) ==
  Put(Put(Put(Action("update"), "entity_type", entityType),
          "entity_key", KeyOf(entityId)), "entity_data", data)

delete(entityType, entityId) ==
  Put(Put(Action("delete"), "entity_type", entityType),
      "entity_key", KeyOf(entityId))

addUserSecurityRole(userId, securityRoleId) ==
  Put(Put(Action("add_user_security_role"), "user_id", userId),
      "security_role_id", securityRoleId)

removeUserSecurityRole(userId, securityRoleId) ==
  Put(Put(Action("remove_user_security_role"), "user_id", userId),
      "security_role_id", securityRoleId)

updateUserSecurityRole(userId, securityRoleId, isActive0) ==
  LET isActive == Default(isActive0, Bool("true"))
  IN  Put(Put(Put(Action("update_user_security_role"), "user_id", userId),
              "security_role_id", securityRoleId), "is_active", isActive)

grantUserSecurityRoleProject(userId, securityRoleId, projectId) ==
  Put(Put(Put(Action("grant_user_security_role_project"), "user_id", userId),
          "security_role_id", securityRoleId), "project_id", projectId)

revokeUserSecurityRoleProject(userId, securityRoleId, projectId) ==
  Put(Put(Put(Action("revoke_user_security_role_project"), "user_id", userId),
          "security_role_id", securityRoleId), "project_id", projectId)

assumeUser(userId) ==
  Put(Action("assume_user"), "user_id", userId)

unAssumeUser == Action("un_assume_user")

sendUserInvite(userId, email0) ==
  LET email == Default(email0, Null)
      o0 == Put(Action("send_user_invite"), "user_id", userId)
  IN  PutIfTruthy(o0, "email", email)

grantApiKeyProject(apiKeyId, projectId) ==
  Put(Put(Action("grant_api_key_project"), "api_key_id", apiKeyId),
      "project_id", projectId)

revokeApiKeyProject(apiKeyId, projectId) ==
  Put(Put(Action("revoke_api_key_project"), "api_key_id", apiKeyId),
      "project_id", projectId)

grantApiKeySecurityRole(apiKeyId, securityRoleId) ==
  Put(Put(Action("grant_api_key_security_role"), "api_key_id", apiKeyId),
      "security_role_id", securityRoleId)

revokeApiKeySecurityRole(apiKeyId, securityRoleId) ==
  Put(Put(Action("revoke_api_key_security_role"), "api_key_id", apiKeyId),
      "security_role_id", securityRoleId)

configureOtp(userId, otpType) ==
  Put(Put(Action("configure_otp"), "user_id", userId), "otp_type", otpType)

configureTotp(userId) ==
  Put(Action("configure_totp"), "user_id", userId)

generateTotp(userId) ==
  Put(Action("generate_totp"), "user_id", userId)

disable2FA(userId) ==
  Put(Action("disable_2fa"), "user_id", userId)

getUploadMetadata(componentId, fileSize, fileName0, checksum0) ==
  LET fileName == Default(fileName0, Null)
      checksum == Default(checksum0, Null)
      o0 == Put(Put(Action("get_upload_metadata"), "component_id", componentId),
                "file_size", fileSize)
      o1 == PutIfTruthy(o0, "file_name", fileName)
  IN  PutIfTruthy(o1, "checksum", checksum)

completeMultipartUpload(componentId, uploadId, parts) ==
  Put(Put(Put(Action("complete_multipart_upload"), "component_id", componentId),
          "upload_id", uploadId), "parts", parts)

\* A variant without the default of the operation parameter.
generateSignedUrl_NoDefault(componentId, operation0) ==
  Put(Put(Action("generate_signed_url"), "component_id", componentId),
      "operation", operation0)

generateSignedUrl(componentId, operation0) ==
  LET operation == Default(operation0, Str("get"))
  IN  Put(Put(Action("generate_signed_url"), "component_id", componentId),
          "operation", operation)

encodeMedia(componentId, options0) ==
  LET options == DefaultOptions(options0)
  IN  Spread(Put(Action("encode_media"), "component_id", componentId), options)

convertEntity(entityType, entityId, targetType) ==
  Put(Put(Put(Action("convert_entity"), "entity_type", entityType),
          "entity_id", entityId), "target_type", targetType)

permissions(entityType, entityId, actions0) ==
  LET actions == Default(actions0, Null)
      o0 == Put(Put(Action("permissions"), "entity_type", entityType),
                "entity_id", entityId)
  IN  PutIfTruthy(o0, "actions", actions)

storageUsage(projectId0) ==
  LET projectId == Default(projectId0, Null)
  IN  PutIfTruthy(Action("storage_usage"), "project_id", projectId)

sendReviewSessionInvite(reviewSessionId, email, name0, message0) ==
  LET name == Default(name0, Null)
      message == Default(message0, Null)
      o0 == Put(Put(Action("send_review_session_invite"),
                    "review_session_id", reviewSessionId), "email", email)
      o1 == PutIfTruthy(o0, "name", name)
  IN  PutIfTruthy(o1, "message", message)

resetRemoteApiKey(userId) ==
  Put(Put(Action("reset_remote"), "user_id", userId), "reset_type", Str("api_key"))

resetRemotePassword(userId) ==
  Put(Put(Action("reset_remote"), "user_id", userId), "reset_type", Str("password"))

DelayedJob(jobType) == Put(Action("delayed_job"), "job_type", Str(jobType))

csvImportDelayedJob(data) ==
  Put(DelayedJob("csvimportdelayedjob"), "job_data", data)

deleteDelayedJob(entityType, entityId) ==
  Put(Put(DelayedJob("deletedelayedjob"), "entity_type", entityType),
      "entity_id", entityId)

exportReviewSessionFeedbackDelayedJob(reviewSessionId, options0) ==
  LET options == DefaultOptions(options0)
  IN  Spread(Put(DelayedJob("exportreviewsessionfeedback"),
                 "review_session_id", reviewSessionId), options)

iconikSyncStructureDelayedJob(projectId, options0) ==
  LET options == DefaultOptions(options0)
  IN  Spread(Put(DelayedJob("iconiksyncstructure"), "project_id", projectId),
             options)

syncLdapUsersDelayedJob(options0) ==
  LET options == DefaultOptions(options0)
  IN  Spread(DelayedJob("syncldapusers"), options)

-----------------------------------------------------------------------------
(* Invocations: what a caller asks of the client.                          *)

\* client.<m>(args..., options): a convenience method, which ends in callOne.
MethodCall(m, args, options) ==
  [kind |-> "method", m |-> m, args |-> args, options |-> options,
   operations |-> <<>>]

\* client.batch(operations), the call of the ftrack_batch tool.
BatchCall(operations) ==
  [kind |-> "batch", m |-> "batch", args |-> <<>>, options |-> NoOptions,
   operations |-> operations]

\* client.call(operations) with an array of Operations, called directly.
ExecuteCall(operations) ==
  [kind |-> "execute", m |-> "call", args |-> <<>>, options |-> NoOptions,
   operations |-> operations]

\* client.call(operation) with a single Operation that is not an array.
SingleCall(operation) ==
  [kind |-> "call", m |-> "call", args |-> <<>>, options |-> NoOptions,
   operations |-> <<operation>>]

NoCall ==
  [kind |-> "none", m |-> "", args |-> <<>>, options |-> NoOptions,
   operations |-> <<>>]

\* The Operation the convenience method c.m builds from c.args and c.options.
BuildOp(c) ==
  LET a(n) == Arg(c.args, n) IN
  CASE c.m = "query" -> query(a(1))
    [] c.m = "parseQuery" -> parseQuery(a(1))
    [] c.m = "querySchemas" -> querySchemas
    [] c.m = "queryServerInformation" -> queryServerInformation
    [] c.m = "search" -> search(a(1), a(2), a(3), a(4), a(5))
    [] c.m = "create" -> create(a(1), a(2))
    [] c.m = "update" -> update(a(1), a(2), a(3))
    [] c.m = "delete" -> delete(a(1), a(2))
    [] c.m = "addUserSecurityRole" -> addUserSecurityRole(a(1), a(2))
    [] c.m = "removeUserSecurityRole" -> removeUserSecurityRole(a(1), a(2))
    [] c.m = "updateUserSecurityRole" -> updateUserSecurityRole(a(1), a(2), a(3))
    [] c.m = "grantUserSecurityRoleProject" ->
         grantUserSecurityRoleProject(a(1), a(2), a(3))
    [] c.m = "revokeUserSecurityRoleProject" ->
         revokeUserSecurityRoleProject(a(1), a(2), a(3))
    [] c.m = "assumeUser" -> assumeUser(a(1))
    [] c.m = "unAssumeUser" -> unAssumeUser
    [] c.m = "sendUserInvite" -> sendUserInvite(a(1), a(2))
    [] c.m = "grantApiKeyProject" -> grantApiKeyProject(a(1), a(2))
    [] c.m = "revokeApiKeyProject" -> revokeApiKeyProject(a(1), a(2))
    [] c.m = "grantApiKeySecurityRole" -> grantApiKeySecurityRole(a(1), a(2))
    [] c.m = "revokeApiKeySecurityRole" -> revokeApiKeySecurityRole(a(1), a(2))
    [] c.m = "configureOtp" -> configureOtp(a(1), a(2))
    [] c.m = "configureTotp" -> configureTotp(a(1))
    [] c.m = "generateTotp" -> generateTotp(a(1))
    [] c.m = "disable2FA" -> disable2FA(a(1))
    [] c.m = "getUploadMetadata" -> getUploadMetadata(a(1), a(2), a(3), a(4))
    [] c.m = "completeMultipartUpload" -> completeMultipartUpload(a(1), a(2), a(3))
    [] c.m = "generateSignedUrl" -> generateSignedUrl(a(1), a(2))
    [] c.m = "encodeMedia" -> encodeMedia(a(1), c.options)
    [] c.m = "convertEntity" -> convertEntity(a(1), a(2), a(3))
    [] c.m = "permissions" -> permissions(a(1), a(2), a(3))
    [] c.m = "storageUsage" -> storageUsage(a(1))
    [] c.m = "sendReviewSessionInvite" ->
         sendReviewSessionInvite(a(1), a(2), a(3), a(4))
    [] c.m = "resetRemoteApiKey" -> resetRemoteApiKey(a(1))
    [] c.m = "resetRemotePassword" -> resetRemotePassword(a(1))
    [] c.m = "csvImportDelayedJob" -> csvImportDelayedJob(a(1))
    [] c.m = "deleteDelayedJob" -> deleteDelayedJob(a(1), a(2))
    [] c.m = "exportReviewSessionFeedbackDelayedJob" ->
         exportReviewSessionFeedbackDelayedJob(a(1), c.options)
    [] c.m = "iconikSyncStructureDelayedJob" ->
         iconikSyncStructureDelayedJob(a(1), c.options)
    [] c.m = "syncLdapUsersDelayedJob" -> syncLdapUsersDelayedJob(c.options)

\* A batch that would forward only the first Operation of the caller's array.
CallArgument_BatchFirstOnly(c) ==
  CASE c.kind = "method" -> [isArray |-> TRUE, items |-> <<BuildOp(c)>>]
    [] c.kind = "batch" ->
         [isArray |-> TRUE,
          items |-> IF c.operations = <<>> THEN <<>> ELSE <<c.operations[1]>>]
    [] c.kind = "execute" -> [isArray |-> TRUE, items |-> c.operations]
    [] c.kind = "call" -> [isArray |-> FALSE, items |-> c.operations]

\* The argument call() receives: callOne passes [operation], batch passes the
\* caller's array, and a direct call passes an array or a bare Operation.
CallArgument(c) ==
  CASE c.kind = "method" -> [isArray |-> TRUE, items |-> <<BuildOp(c)>>]
    [] c.kind = "batch" -> [isArray |-> TRUE, items |-> c.operations]
    [] c.kind = "execute" -> [isArray |-> TRUE, items |-> c.operations]
    [] c.kind = "call" -> [isArray |-> FALSE, items |-> c.operations]

\* A wrapping that would send a bare Operation as an empty array.
WrapOperations_Drops(arg) == IF ~arg.isArray THEN <<>> ELSE arg.items

\* if (!Array.isArray(operations)) operations = [operations];
WrapOperations(arg) == IF ~arg.isArray THEN <<arg.items[1]>> ELSE arg.items

-----------------------------------------------------------------------------
(* Texts, JSON and messages.                                               *)

Lit(s) == [s |-> s, arr |-> <<>>]
JsonText(arr) == [s |-> "json", arr |-> arr]

\* JSON.stringify of a value: undefined inside an array is written as null.
JsonValue(x) ==
  IF x.t = "array"
  THEN List([n \in DOMAIN x.v |-> IF x.v[n] = Undefined THEN Null ELSE x.v[n]])
  ELSE x

\* JSON.stringify of an object: a property whose value is undefined is left out.
JsonObject(o) ==
  [k \in {k \in DOMAIN o : o[k] # Undefined} |-> JsonValue(o[k])]

\* body: JSON.stringify(operations)
JsonBody(operations) == [n \in DOMAIN operations |-> JsonObject(operations[n])]

\* response.json(): the body parses only if it is JSON text.
IsJson(text) == text.s = "json"
ParseJson(text) == text.arr

\* `ftrack API error (${response.status}): ${errorText}`
HttpErrorMessage(status, errorText) ==
  <<Lit("ftrack API error ("), Lit(status), Lit("): "), errorText>>

\* A variant that counts the failed operation from one.
OperationErrorMessage_OneBased(i, content) ==
  <<Lit("Operation "), Lit(ToString(i + 1)), Lit(" failed: "), Lit(ToStr(content))>>

\* `Operation ${i} failed: ${results[i].content}` (i counts from zero)
OperationErrorMessage(i, content) ==
  <<Lit("Operation "), Lit(ToString(i)), Lit(" failed: "), Lit(ToStr(content))>>

\* The message of the error a rejected fetch carries.
FetchFailedMessage == <<Lit("fetch failed")>>

\* The message of the error response.json() throws on a body that is not JSON.
JsonSyntaxMessage == <<Lit("Unexpected token in JSON")>>

-----------------------------------------------------------------------------
(* Results.  An element of the result array is [j, exception, content]: j  *)
(* is the element itself, exception and content what reading those         *)
(* properties of it gives (undefined when it has none).                    *)

Elem(j, exception, content) ==
  [j |-> j, exception |-> exception, content |-> content]

UndefinedElem == Elem(Undefined, Undefined, Undefined)

\* A test that would take any exception property, a falsy one included.
IsErrorMarker_AnyException(e) == Truthy(e.j) /\ e.exception # Undefined

\* results[i] && results[i].exception
IsErrorMarker(e) == Truthy(e.j) /\ Truthy(e.exception)

\* for (let i = 0; i < results.length; i++) from position i (counted from 1):
\* the position of the first error marker, 0 when the loop ends without one.
RECURSIVE ScanFrom(_, _)
ScanFrom(results, i) ==
  IF i > Len(results) THEN 0
  ELSE IF IsErrorMarker(results[i]) THEN i
  ELSE ScanFrom(results, i + 1)

\* A variant that keeps scanning and reports the last error marker.
FirstError_Last(results) ==
  LET marks == {k \in DOMAIN results : IsErrorMarker(results[k])}
  IN  IF marks = {} THEN 0 ELSE CHOOSE k \in marks : \A j \in marks : j <= k

FirstError(results) == ScanFrom(results, 1)

NoOutcome == [kind |-> "none", results |-> <<>>, message |-> <<>>]
Returned(results) == [kind |-> "returned", results |-> results, message |-> <<>>]
Threw(message) == [kind |-> "threw", results |-> <<>>, message |-> message]

\* A variant that returns the results that precede the first error marker.
CheckResults_Partial(results) ==
  IF FirstError(results) = 0 THEN Returned(results)
  ELSE Returned(SubSeq(results, 1, FirstError(results) - 1))

\* A variant that drops null elements from the results it returns.
CheckResults_Compacted(results) ==
  LET i == ScanFrom(results, 1) IN
  IF i # 0 THEN Threw(OperationErrorMessage(i - 1, results[i].content))
  ELSE Returned(SelectSeq(results, LAMBDA e : e.j # Null))

\* What call() does with the parsed results: throw on the first error marker,
\* return the results otherwise.
CheckResults(results) ==
  LET i == FirstError(results) IN
  IF i # 0 THEN Threw(OperationErrorMessage(i - 1, results[i].content))
  ELSE Returned(results)

\* callOne: results[0], undefined when the array is empty.
CallOneResult(results) == IF Len(results) >= 1 THEN results[1] ELSE UndefinedElem

-----------------------------------------------------------------------------
(* The tool handlers of index.js: try { result = await client.m(...) }     *)
(* catch (error) { ... }.                                                  *)

NoToolResponse == [kind |-> "none", isError |-> FALSE, text |-> <<>>]

\* JSON.stringify(result, null, 2): result is the results array for
\* ftrack_batch and results[0] for every tool that ends in callOne;
\* JSON.stringify(undefined) is undefined.
PrettyJson(c, results) ==
  IF c.kind = "batch" THEN JsonText(results)
  ELSE IF CallOneResult(results) = UndefinedElem THEN [s |-> "<undefined>", arr |-> <<>>]
  ELSE [s |-> "json-value", arr |-> <<CallOneResult(results)>>]

\* return { content: [{ type: 'text', text: JSON.stringify(result, null, 2) }] }
SuccessResponse(c, results) ==
  [kind |-> "responded", isError |-> FALSE, text |-> <<PrettyJson(c, results)>>]

\* A variant that answers a failure without the error flag.
ErrorResponse_Unflagged(message) ==
  [kind |-> "responded", isError |-> FALSE, text |-> <<Lit("Error: ")>> \o message]

\* return { content: [{ type: 'text', text: `Error: ${error.message}` }],
\*          isError: true }
ErrorResponse(message) ==
  [kind |-> "responded", isError |-> TRUE, text |-> <<Lit("Error: ")>> \o message]

\* A direct client.call has no tool handler around it.
HandlerResponse(c, out) ==
  IF c.kind \in {"call", "execute"} THEN NoToolResponse
  ELSE IF out.kind = "threw" THEN ErrorResponse(out.message)
  ELSE SuccessResponse(c, out.results)

-----------------------------------------------------------------------------
(* The state machine.                                                      *)

\* serverUrl.replace(/\/$/, '') : the text without one slash at its end.
StripTrailingSlash(u) ==
  IF Len(u) > 0 /\ SubSeq(u, Len(u), Len(u)) = "/"
  THEN SubSeq(u, 1, Len(u) - 1)
  ELSE u

\* x?.replace(/\/$/, '') : undefined for undefined and null.
OptionalStrip(x) ==
  IF x.t \in {"undefined", "null"} THEN Undefined
  ELSE Str(StripTrailingSlash(x.v[1]))

\* x || y
OrElse(x, y) == IF Truthy(x) THEN x ELSE y

\* process.env: a variable that is not set reads as undefined.
Env(server, user, key) ==
  [FTRACK_SERVER |-> server, FTRACK_API_USER |-> user, FTRACK_API_KEY |-> key]

\* The fields the constructor assigns from its arguments and the environment
\* before it validates them.
Resolved(serverUrl, apiUser, apiKey, env) ==
  [serverUrl |-> OrElse(OptionalStrip(serverUrl), env.FTRACK_SERVER),
   apiUser |-> OrElse(apiUser, env.FTRACK_API_USER),
   apiKey |-> OrElse(apiKey, env.FTRACK_API_KEY)]

\* No client object.
NoClient == [serverUrl |-> "", apiUser |-> "", apiKey |-> "", apiEndpoint |-> ""]

\* A variant that does not validate the API key.
Construct_KeyUnchecked(serverUrl, apiUser, apiKey, env) ==
  LET this == Resolved(serverUrl, apiUser, apiKey, env) IN
  IF ~Truthy(this.serverUrl) \/ ~Truthy(this.apiUser)
  THEN [thrown |-> "required", client |-> NoClient]
  ELSE [thrown |-> "",
        client |-> [serverUrl |-> this.serverUrl.v[1],
                    apiUser |-> this.apiUser.v[1],
                    apiKey |-> IF Truthy(this.apiKey) THEN this.apiKey.v[1] ELSE "",
                    apiEndpoint |-> this.serverUrl.v[1] \o "/api"]]

\* new FtrackClient(serverUrl, apiUser, apiKey): the error it throws when a
\* field is missing, and otherwise the client.
Construct(serverUrl, apiUser, apiKey, env) ==
  LET this == Resolved(serverUrl, apiUser, apiKey, env) IN
  IF ~Truthy(this.serverUrl)
  THEN [thrown |-> "FTRACK_SERVER environment variable or serverUrl is required",
        client |-> NoClient]
  ELSE IF ~Truthy(this.apiUser)
  THEN [thrown |-> "FTRACK_API_USER environment variable or apiUser is required",
        client |-> NoClient]
  ELSE IF ~Truthy(this.apiKey)
  THEN [thrown |-> "FTRACK_API_KEY environment variable or apiKey is required",
        client |-> NoClient]
  ELSE [thrown |-> "",
        client |-> [serverUrl |-> this.serverUrl.v[1],
                    apiUser |-> this.apiUser.v[1],
                    apiKey |-> this.apiKey.v[1],
                    apiEndpoint |-> this.serverUrl.v[1] \o "/api"]]

\* The process: its phase (starting, serving, exited), the arguments the
\* client is constructed with, its environment, whether the server has
\* connected to its transport, the exit code once it has exited, and the
\* lines it has written to its diagnostic stream.
Process(phase, args, env) ==
  [phase |-> phase, args |-> args, env |-> env, connected |-> FALSE,
   exit |-> <<>>, stderr |-> <<>>]

\* console.error('ftrack MCP server started')
ReadinessLine == "ftrack MCP server started"

\* console.error('Failed to initialize ftrack client:', error.message) and
\* the line that names the three variables.
FailureLines(message) ==
  <<"Failed to initialize ftrack client: " \o message,
    "Please set FTRACK_SERVER, FTRACK_API_USER, and FTRACK_API_KEY environment variables.">>

\* A server that has started with a complete environment.
Serving ==
  [Process("serving",
           <<Str("https://ftrack.example"), Str("api-user"), Str("api-key")>>,
           Env(Str("https://ftrack.example"), Str("api-user"), Str("api-key")))
   EXCEPT !.connected = TRUE, !.stderr = <<ReadinessLine>>]

\* The identity the constructor stored.
Identity ==
  [serverUrl |-> "https://ftrack.example", apiUser |-> "api-user",
   apiKey |-> "api-key", apiEndpoint |-> "https://ftrack.example/api"]

NoRequest ==
  [sent |-> FALSE, method |-> "", url |-> "", user |-> "", key |-> "",
   operations |-> <<>>, body |-> <<>>]

\* The request call() hands to fetch; operations is the array call() holds
\* and body its JSON text.
PostRequest(cl, operations) ==
  [sent |-> TRUE, method |-> "POST", url |-> cl.apiEndpoint,
   user |-> cl.apiUser, key |-> cl.apiKey, operations |-> operations,
   body |-> JsonBody(operations)]

NoResponse == [received |-> FALSE, ok |-> FALSE, status |-> "", body |-> Lit("")]
Response(ok, status, body) ==
  [received |-> TRUE, ok |-> ok, status |-> status, body |-> body]

Init ==
  /\ proc = Serving
  /\ client = Identity
  /\ pc = [i \in Invocations |-> "idle"]
  /\ inv = [i \in Invocations |-> NoCall]
  /\ request = [i \in Invocations |-> NoRequest]
  /\ posts = [i \in Invocations |-> 0]
  /\ resp = [i \in Invocations |-> NoResponse]
  /\ callOut = [i \in Invocations |-> NoOutcome]
  /\ toolOut = [i \in Invocations |-> NoToolResponse]

\* A variant in which assumeUser makes the assumed user the client's own.
Invoke_AssumesIdentity(i, c) ==
  /\ pc[i] = "idle"
  /\ inv' = [inv EXCEPT ![i] = c]
  /\ request' = [request EXCEPT ![i] =
                   PostRequest(client, WrapOperations(CallArgument(c)))]
  /\ posts' = [posts EXCEPT ![i] = @ + 1]
  /\ pc' = [pc EXCEPT ![i] = "awaitFetch"]
  /\ client' = IF c.m = "assumeUser"
               THEN [client EXCEPT !.apiUser = ToStr(Arg(c.args, 1))]
               ELSE client
  /\ UNCHANGED <<proc, resp, callOut, toolOut>>

\* A variant in which a method with an options mapping writes its fixed
\* fields into the caller's mapping and sends that.
Invoke_MergesIntoOptions(i, c) ==
  /\ pc[i] = "idle"
  /\ inv' = [inv EXCEPT ![i] =
               IF c.kind = "method" /\ c.options.given
               THEN [c EXCEPT !.options = Options(BuildOp(c))]
               ELSE c]
  /\ request' = [request EXCEPT ![i] =
                   PostRequest(client, WrapOperations(CallArgument(c)))]
  /\ posts' = [posts EXCEPT ![i] = @ + 1]
  /\ pc' = [pc EXCEPT ![i] = "awaitFetch"]
  /\ UNCHANGED <<proc, client, resp, callOut, toolOut>>

\* The handler starts, the method builds its Operation, and call() runs up to
\* `await fetch(...)`: the one POST is on its way.
Invoke(i, c) ==
  /\ pc[i] = "idle"
  /\ inv' = [inv EXCEPT ![i] = c]
  /\ request' = [request EXCEPT ![i] =
                   PostRequest(client, WrapOperations(CallArgument(c)))]
  /\ posts' = [posts EXCEPT ![i] = @ + 1]
  /\ pc' = [pc EXCEPT ![i] = "awaitFetch"]
  /\ UNCHANGED <<proc, client, resp, callOut, toolOut>>

\* call() ends with outcome out, and the handler around it answers.
Finish(i, out) ==
  /\ callOut' = [callOut EXCEPT ![i] = out]
  /\ toolOut' = [toolOut EXCEPT ![i] = HandlerResponse(inv[i], out)]
  /\ pc' = [pc EXCEPT ![i] = "done"]

\* A variant that sends the request again after a network failure.
FetchRejects_Retry(i) ==
  /\ pc[i] = "awaitFetch"
  /\ posts' = [posts EXCEPT ![i] = @ + 1]
  /\ UNCHANGED <<proc, client, pc, inv, request, resp, callOut, toolOut>>

\* Network failure: fetch rejects, call() lets the error through.
FetchRejects(i) ==
  /\ pc[i] = "awaitFetch"
  /\ Finish(i, Threw(FetchFailedMessage))
  /\ UNCHANGED <<proc, client, inv, request, posts, resp>>

\* A variant that reads every response as JSON, whatever its status.
FetchResolves_IgnoresStatus(i, r) ==
  /\ pc[i] = "awaitFetch"
  /\ resp' = [resp EXCEPT ![i] = r]
  /\ pc' = [pc EXCEPT ![i] = "awaitJson"]
  /\ UNCHANGED <<proc, client, inv, request, posts, callOut, toolOut>>

\* fetch resolves with response r; call() goes on to read the body, as text
\* if (!response.ok) and as JSON otherwise.
FetchResolves(i, r) ==
  /\ pc[i] = "awaitFetch"
  /\ resp' = [resp EXCEPT ![i] = r]
  /\ pc' = [pc EXCEPT ![i] = IF ~r.ok THEN "awaitText" ELSE "awaitJson"]
  /\ UNCHANGED <<proc, client, inv, request, posts, callOut, toolOut>>

\* A variant that sends the request once more after an HTTP error.
TextResolves_Resend(i) ==
  /\ pc[i] = "awaitText"
  /\ posts' = [posts EXCEPT ![i] = @ + 1]
  /\ pc' = [pc EXCEPT ![i] = "awaitFetch"]
  /\ UNCHANGED <<proc, client, inv, request, resp, callOut, toolOut>>

\* const errorText = await response.text(); throw new Error(...)
TextResolves(i) ==
  /\ pc[i] = "awaitText"
  /\ Finish(i, Threw(HttpErrorMessage(resp[i].status, resp[i].body)))
  /\ UNCHANGED <<proc, client, inv, request, posts, resp>>

\* A variant that keeps the last response in one place shared by all
\* invocations, and reads that.
JsonResolves_SharedResponse(i) ==
  /\ pc[i] = "awaitJson"
  /\ \E j \in Invocations :
       /\ pc[j] = "awaitJson"
       /\ Finish(i, IF IsJson(resp[j].body)
                    THEN CheckResults(ParseJson(resp[j].body))
                    ELSE Threw(JsonSyntaxMessage))
  /\ UNCHANGED <<proc, client, inv, request, posts, resp>>

\* A variant that awaits the body a second time, as text, after the JSON.
JsonResolves_ReadsTwice(i) ==
  /\ pc[i] = "awaitJson"
  /\ pc' = [pc EXCEPT ![i] = "awaitText"]
  /\ UNCHANGED <<proc, client, inv, request, posts, resp, callOut, toolOut>>

\* const results = await response.json(); then the scan for error markers.
JsonResolves(i) ==
  /\ pc[i] = "awaitJson"
  /\ Finish(i, IF IsJson(resp[i].body)
               THEN CheckResults(ParseJson(resp[i].body))
               ELSE Threw(JsonSyntaxMessage))
  /\ UNCHANGED <<proc, client, inv, request, posts, resp>>

\* The caller has its answer; nothing of the invocation is kept.
Return(i) ==
  /\ pc[i] = "done"
  /\ pc' = [pc EXCEPT ![i] = "idle"]
  /\ inv' = [inv EXCEPT ![i] = NoCall]
  /\ request' = [request EXCEPT ![i] = NoRequest]
  /\ posts' = [posts EXCEPT ![i] = 0]
  /\ resp' = [resp EXCEPT ![i] = NoResponse]
  /\ callOut' = [callOut EXCEPT ![i] = NoOutcome]
  /\ toolOut' = [toolOut EXCEPT ![i] = NoToolResponse]
  /\ UNCHANGED <<proc, client>>

-----------------------------------------------------------------------------
(* Inputs.                                                                 *)

RECURSIVE SeqsUpTo(_, _)
\* The sequences over S of length at most n.
SeqsUpTo(S, n) ==
  IF n = 0 THEN {<<>>}
  ELSE LET shorter == SeqsUpTo(S, n - 1)
       IN  shorter \cup {Append(q, x) : q \in shorter, x \in S}

OpQuery == query(Str("select id from Task"))
OpDelete == delete(Str("Task"), Str("t1"))
SampleOps == {OpQuery, OpDelete}

ENull == Elem(Null, Undefined, Undefined)
EScalar == Elem(Num("7"), Undefined, Undefined)
EData == Elem(Object("entity"), Undefined, Str("data"))
EFalsy == Elem(Object("entity"), Bool("false"), Str("fine"))
EErrA == Elem(Object("error"), Str("ServerError"), Str("boom"))
EErrB == Elem(Object("error"), Str("ValidationError"), Str("denied"))
EErrNoContent == Elem(Object("error"), Bool("true"), Undefined)
ResultElems == {ENull, EScalar, EData, EFalsy, EErrA, EErrB, EErrNoContent}

ResultArrays == SeqsUpTo(ResultElems, MaxResults)

OkResponses ==
  {Response(TRUE, "200", JsonText(a)) : a \in ResultArrays}
    \cup {Response(TRUE, "200", Lit("<html>"))}

ErrorBodies ==
  {Lit("Not Found"), Lit(""), JsonText(<<EData>>), JsonText(<<EData, EErrA>>)}

ErrorResponses ==
  {Response(FALSE, st, b) : st \in {"404", "500"}, b \in ErrorBodies}

Responses == OkResponses \cup ErrorResponses

Batches == {BatchCall(ops) : ops \in SeqsUpTo(SampleOps, MaxOps)}

SampleMethodCalls ==
  {MethodCall("query", <<Str("select id from Project")>>, NoOptions),
   MethodCall("unAssumeUser", <<>>, NoOptions),
   MethodCall("sendUserInvite", <<Str("u1"), Str("a@b.c")>>, NoOptions),
   MethodCall("encodeMedia", <<Str("c1")>>, NoOptions)}

Calls ==
  Batches \cup SampleMethodCalls \cup {SingleCall(o) : o \in SampleOps}

\* The dispatcher takes one invocation at a time from the host.
Quiet(i) == \A j \in Invocations \ {i} : pc[j] = "idle"

\* The host invokes a handler with one of the given calls; the server
\* receives requests once it has connected to its transport.
Dispatch(i, calls) ==
  /\ proc.phase = "serving"
  /\ proc.connected
  /\ Quiet(i)
  /\ pc[i] = "idle"
  /\ \E c \in calls : Invoke(i, c)

\* The transport answers the pending request with one of the given responses.
Respond(i, responses) ==
  /\ pc[i] = "awaitFetch"
  /\ \E r \in responses : FetchResolves(i, r)

Next ==
  \E i \in Invocations :
    \/ Dispatch(i, Calls)
    \/ FetchRejects(i)
    \/ Respond(i, Responses)
    \/ TextResolves(i)
    \/ JsonResolves(i)
    \/ Return(i)

Spec == Init /\ [][Next]_vars

-----------------------------------------------------------------------------
(* The convenience methods over their arguments: the same handlers and     *)
(* client, every method called with every combination of argument values,  *)
(* against a transport with one answer of each kind.                       *)

RECURSIVE Product(_)
\* The argument lists whose n-th argument is drawn from doms[n].
Product(doms) ==
  IF doms = <<>> THEN {<<>>}
  ELSE {<<x>> \o rest : x \in Head(doms), rest \in Product(Tail(doms))}

Ids == {Str("id1"), Str("id2")}
OneId == {Str("id1")}
\* An optional scalar argument: absent (undefined, null), falsy or a string.
OptVals == {Undefined, Null, Str(""), Num("0"), Bool("false"), Str("x")}
\* An optional array argument.
OptArrays == {Undefined, Null, List(<<>>), List(<<Str("a"), Str("b")>>)}
DataVals == {Object("data")}

OptionMaps ==
  {EmptyObject,
   "preset" :> Str("h264"),
   "action" :> Str("delete"),
   "job_type" :> Str("deletedelayedjob"),
   ("component_id" :> Str("other")) @@ ("review_session_id" :> Null)}

OptionArgs == {NoOptions} \cup {Options(m) : m \in OptionMaps}

\* The calls of method m with argument lists from doms, the trailing
\* arguments after the first `required` ones also left out.
CallsOf(m, doms, required) ==
  {MethodCall(m, args, NoOptions) :
     args \in UNION {Product(SubSeq(doms, 1, n)) : n \in required .. Len(doms)}}

CallsWithOptions(m, doms) ==
  {MethodCall(m, args, o) : args \in Product(doms), o \in OptionArgs}

BuildCalls ==
  CallsOf("query", <<Ids>>, 1)
    \cup CallsOf("parseQuery", <<Ids>>, 1)
    \cup CallsOf("querySchemas", <<>>, 0)
    \cup CallsOf("queryServerInformation", <<>>, 0)
    \cup CallsOf("search", <<OneId, OptVals, OptArrays, OptVals, OptArrays>>, 1)
    \cup CallsOf("create", <<Ids, DataVals>>, 2)
    \cup CallsOf("update", <<Ids, Ids, DataVals>>, 3)
    \cup CallsOf("delete", <<Ids, Ids>>, 2)
    \cup CallsOf("addUserSecurityRole", <<Ids, Ids>>, 2)
    \cup CallsOf("removeUserSecurityRole", <<Ids, Ids>>, 2)
    \cup CallsOf("updateUserSecurityRole",
                 <<OneId, OneId, {Undefined, Null, Bool("true"), Bool("false")}>>, 2)
    \cup CallsOf("grantUserSecurityRoleProject", <<Ids, Ids, OneId>>, 3)
    \cup CallsOf("revokeUserSecurityRoleProject", <<Ids, Ids, OneId>>, 3)
    \cup CallsOf("assumeUser", <<Ids>>, 1)
    \cup CallsOf("unAssumeUser", <<>>, 0)
    \cup CallsOf("sendUserInvite", <<Ids, OptVals>>, 1)
    \cup CallsOf("grantApiKeyProject", <<Ids, Ids>>, 2)
    \cup CallsOf("revokeApiKeyProject", <<Ids, Ids>>, 2)
    \cup CallsOf("grantApiKeySecurityRole", <<Ids, Ids>>, 2)
    \cup CallsOf("revokeApiKeySecurityRole", <<Ids, Ids>>, 2)
    \cup CallsOf("configureOtp", <<Ids, {Str("totp")}>>, 2)
    \cup CallsOf("configureTotp", <<Ids>>, 1)
    \cup CallsOf("generateTotp", <<Ids>>, 1)
    \cup CallsOf("disable2FA", <<Ids>>, 1)
    \cup CallsOf("getUploadMetadata",
                 <<OneId, {Num("0"), Num("1024")}, OptVals, OptVals>>, 2)
    \cup CallsOf("completeMultipartUpload", <<Ids, OneId, OptArrays>>, 3)
    \cup CallsOf("generateSignedUrl",
                 <<Ids, {Undefined, Null, Str("get"), Str("put")}>>, 1)
    \cup CallsWithOptions("encodeMedia", <<Ids>>)
    \cup CallsOf("convertEntity", <<Ids, Ids, OneId>>, 3)
    \cup CallsOf("permissions", <<OneId, Ids, OptArrays>>, 2)
    \cup CallsOf("storageUsage", <<OptVals>>, 0)
    \cup CallsOf("sendReviewSessionInvite", <<OneId, OneId, OptVals, OptVals>>, 2)
    \cup CallsOf("resetRemoteApiKey", <<Ids>>, 1)
    \cup CallsOf("resetRemotePassword", <<Ids>>, 1)
    \cup CallsOf("csvImportDelayedJob", <<DataVals>>, 1)
    \cup CallsOf("deleteDelayedJob", <<Ids, Ids>>, 2)
    \cup CallsWithOptions("exportReviewSessionFeedbackDelayedJob", <<Ids>>)
    \cup CallsWithOptions("iconikSyncStructureDelayedJob", <<Ids>>)
    \cup CallsWithOptions("syncLdapUsersDelayedJob", <<>>)

BuildResponses ==
  {Response(TRUE, "200", JsonText(<<EData>>)),
   Response(FALSE, "500", Lit("Not Found"))}

NextBuild ==
  \E i \in Invocations :
    \/ Dispatch(i, BuildCalls)
    \/ FetchRejects(i)
    \/ Respond(i, BuildResponses)
    \/ TextResolves(i)
    \/ JsonResolves(i)
    \/ Return(i)

SpecBuild == Init /\ [][NextBuild]_vars

-----------------------------------------------------------------------------
(* The tools of index.js: what each handler makes of the arguments the     *)
(* host sends.  The arguments are a function from parameter names to       *)
(* JavaScript values; a parameter the host did not send is undefined.      *)

\* const { k } = args
ToolArg(a, k) == IF k \in DOMAIN a THEN a[k] ELSE Undefined

\* z.<type>().optional().default(d): the default stands in for undefined.
ZodDefault(x, d) == IF x = Undefined THEN d ELSE x

\* The defaults the parameter schemas of a tool declare.
ZodDefaults(tool) ==
  CASE tool = "ftrack_update_user_security_role" -> "is_active" :> Bool("true")
    [] tool = "ftrack_generate_signed_url" -> "operation" :> Str("get")
    [] tool = "ftrack_list_projects" ->
         ("include_archived" :> Bool("false")) @@ ("limit" :> Num("100"))
    [] tool = "ftrack_list_tasks" -> "limit" :> Num("100")
    [] tool = "ftrack_list_users" ->
         ("include_inactive" :> Bool("false")) @@ ("limit" :> Num("100"))
    [] tool = "ftrack_list_asset_versions" -> "limit" :> Num("50")
    [] tool = "ftrack_list_notes" -> "limit" :> Num("50")
    [] tool = "ftrack_list_review_sessions" -> "limit" :> Num("50")
    [] OTHER -> EmptyObject

\* The arguments the handler receives: the host's, with the declared defaults.
ZodParse(tool, a) ==
  LET d == ZodDefaults(tool) IN
  [k \in DOMAIN a \cup DOMAIN d |->
     IF k \in DOMAIN d THEN ZodDefault(ToolArg(a, k), d[k]) ELSE a[k]]

\* options || {} : an options mapping is truthy even when empty.
OptionsOrEmpty(options) == Options(DefaultOptions(options))

\* The tools whose handler hands its arguments on to one convenience method:
\* the method, the arguments in the order the handler passes them, and
\* whether it passes `options || {}` last.
PassThrough(tool) ==
  CASE tool = "ftrack_query" ->
         [m |-> "query", params |-> <<"expression">>, options |-> FALSE]
    [] tool = "ftrack_parse_query" ->
         [m |-> "parseQuery", params |-> <<"expression">>, options |-> FALSE]
    [] tool = "ftrack_query_schemas" ->
         [m |-> "querySchemas", params |-> <<>>, options |-> FALSE]
    [] tool = "ftrack_query_server_information" ->
         [m |-> "queryServerInformation", params |-> <<>>, options |-> FALSE]
    [] tool = "ftrack_search" ->
         [m |-> "search", params |-> <<"expression", "entity_type", "terms", "context_id", "object_type_ids">>, options |-> FALSE]
    [] tool = "ftrack_create" ->
         [m |-> "create", params |-> <<"entity_type", "entity_data">>, options |-> FALSE]
    [] tool = "ftrack_update" ->
         [m |-> "update", params |-> <<"entity_type", "entity_id", "entity_data">>, options |-> FALSE]
    [] tool = "ftrack_delete" ->
         [m |-> "delete", params |-> <<"entity_type", "entity_id">>, options |-> FALSE]
    [] tool = "ftrack_add_user_security_role" ->
         [m |-> "addUserSecurityRole", params |-> <<"user_id", "security_role_id">>, options |-> FALSE]
    [] tool = "ftrack_remove_user_security_role" ->
         [m |-> "removeUserSecurityRole", params |-> <<"user_id", "security_role_id">>, options |-> FALSE]
    [] tool = "ftrack_update_user_security_role" ->
         [m |-> "updateUserSecurityRole", params |-> <<"user_id", "security_role_id", "is_active">>, options |-> FALSE]
    [] tool = "ftrack_grant_user_security_role_project" ->
         [m |-> "grantUserSecurityRoleProject", params |-> <<"user_id", "security_role_id", "project_id">>, options |-> FALSE]
    [] tool = "ftrack_revoke_user_security_role_project" ->
         [m |-> "revokeUserSecurityRoleProject", params |-> <<"user_id", "security_role_id", "project_id">>, options |-> FALSE]
    [] tool = "ftrack_assume_user" ->
         [m |-> "assumeUser", params |-> <<"user_id">>, options |-> FALSE]
    [] tool = "ftrack_un_assume_user" ->
         [m |-> "unAssumeUser", params |-> <<>>, options |-> FALSE]
    [] tool = "ftrack_send_user_invite" ->
         [m |-> "sendUserInvite", params |-> <<"user_id", "email">>, options |-> FALSE]
    [] tool = "ftrack_grant_api_key_project" ->
         [m |-> "grantApiKeyProject", params |-> <<"api_key_id", "project_id">>, options |-> FALSE]
    [] tool = "ftrack_revoke_api_key_project" ->
         [m |-> "revokeApiKeyProject", params |-> <<"api_key_id", "project_id">>, options |-> FALSE]
    [] tool = "ftrack_grant_api_key_security_role" ->
         [m |-> "grantApiKeySecurityRole", params |-> <<"api_key_id", "security_role_id">>, options |-> FALSE]
    [] tool = "ftrack_revoke_api_key_security_role" ->
         [m |-> "revokeApiKeySecurityRole", params |-> <<"api_key_id", "security_role_id">>, options |-> FALSE]
    [] tool = "ftrack_configure_otp" ->
         [m |-> "configureOtp", params |-> <<"user_id", "otp_type">>, options |-> FALSE]
    [] tool = "ftrack_configure_totp" ->
         [m |-> "configureTotp", params |-> <<"user_id">>, options |-> FALSE]
    [] tool = "ftrack_generate_totp" ->
         [m |-> "generateTotp", params |-> <<"user_id">>, options |-> FALSE]
    [] tool = "ftrack_disable_2fa" ->
         [m |-> "disable2FA", params |-> <<"user_id">>, options |-> FALSE]
    [] tool = "ftrack_get_upload_metadata" ->
         [m |-> "getUploadMetadata", params |-> <<"component_id", "file_size", "file_name", "checksum">>, options |-> FALSE]
    [] tool = "ftrack_complete_multipart_upload" ->
         [m |-> "completeMultipartUpload", params |-> <<"component_id", "upload_id", "parts">>, options |-> FALSE]
    [] tool = "ftrack_generate_signed_url" ->
         [m |-> "generateSignedUrl", params |-> <<"component_id", "operation">>, options |-> FALSE]
    [] tool = "ftrack_encode_media" ->
         [m |-> "encodeMedia", params |-> <<"component_id">>, options |-> TRUE]
    [] tool = "ftrack_convert_entity" ->
         [m |-> "convertEntity", params |-> <<"entity_type", "entity_id", "target_type">>, options |-> FALSE]
    [] tool = "ftrack_permissions" ->
         [m |-> "permissions", params |-> <<"entity_type", "entity_id", "actions">>, options |-> FALSE]
    [] tool = "ftrack_storage_usage" ->
         [m |-> "storageUsage", params |-> <<"project_id">>, options |-> FALSE]
    [] tool = "ftrack_send_review_session_invite" ->
         [m |-> "sendReviewSessionInvite", params |-> <<"review_session_id", "email", "name", "message">>, options |-> FALSE]
    [] tool = "ftrack_reset_remote_api_key" ->
         [m |-> "resetRemoteApiKey", params |-> <<"user_id">>, options |-> FALSE]
    [] tool = "ftrack_reset_remote_password" ->
         [m |-> "resetRemotePassword", params |-> <<"user_id">>, options |-> FALSE]
    [] tool = "ftrack_csv_import_delayed_job" ->
         [m |-> "csvImportDelayedJob", params |-> <<"job_data">>, options |-> FALSE]
    [] tool = "ftrack_delete_delayed_job" ->
         [m |-> "deleteDelayedJob", params |-> <<"entity_type", "entity_id">>, options |-> FALSE]
    [] tool = "ftrack_export_review_session_feedback_delayed_job" ->
         [m |-> "exportReviewSessionFeedbackDelayedJob", params |-> <<"review_session_id">>, options |-> TRUE]
    [] tool = "ftrack_iconik_sync_structure_delayed_job" ->
         [m |-> "iconikSyncStructureDelayedJob", params |-> <<"project_id">>, options |-> TRUE]
    [] tool = "ftrack_sync_ldap_users_delayed_job" ->
         [m |-> "syncLdapUsersDelayedJob", params |-> <<>>, options |-> TRUE]

PassThroughCall(tool, a, options) ==
  LET p == PassThrough(tool) IN
  MethodCall(p.m, [n \in DOMAIN p.params |-> ToolArg(a, p.params[n])],
             IF p.options THEN OptionsOrEmpty(options) ELSE NoOptions)

RECURSIVE Join(_, _)
\* seq.join(sep)
Join(seq, sep) ==
  IF seq = <<>> THEN ""
  ELSE IF Len(seq) = 1 THEN seq[1]
  ELSE seq[1] \o sep \o Join(Tail(seq), sep)

\* if (x) conditions.push(text);
PushIfTruthy(conditions, x, text) ==
  IF Truthy(x) THEN Append(conditions, text) ELSE conditions

\* `<field> is "${x}"`
IsClause(field, x) == field \o " is \"" \o ToStr(x) \o "\""

\* if (conditions.length > 0) expression += ` where ${conditions.join(' and ')}`;
WhereOf(conditions) ==
  IF Len(conditions) > 0 THEN " where " \o Join(conditions, " and ") ELSE ""

\* client.query(expression) with the expression a handler has built.
QueryCall(expression) == MethodCall("query", <<Str(expression)>>, NoOptions)

\* A variant that puts the limit before the status clause.
ftrack_list_projects_LimitFirst(a) ==
  LET include_archived == ToolArg(a, "include_archived")
      limit == ToolArg(a, "limit")
  IN  QueryCall("select id, name, full_name, status, start_date, end_date from Project"
                \o " limit " \o ToStr(limit)
                \o (IF ~Truthy(include_archived)
                    THEN " where status.name != \"archived\"" ELSE ""))

ftrack_list_projects(a) ==
  LET include_archived == ToolArg(a, "include_archived")
      limit == ToolArg(a, "limit")
  IN  QueryCall("select id, name, full_name, status, start_date, end_date from Project"
                \o (IF ~Truthy(include_archived)
                    THEN " where status.name != \"archived\"" ELSE "")
                \o " limit " \o ToStr(limit))

TaskProjection ==
  "select id, name, type.name, status.name, priority.name, start_date, end_date, assignments.resource.username from Task"

\* A variant that pushes the status condition first.
TaskConditions_StatusFirst(a) ==
  LET project_id == ToolArg(a, "project_id")
      parent_id == ToolArg(a, "parent_id")
      assignee_id == ToolArg(a, "assignee_id")
      status == ToolArg(a, "status")
      c1 == PushIfTruthy(<<>>, status, IsClause("status.name", status))
      c2 == PushIfTruthy(c1, project_id, IsClause("project_id", project_id))
      c3 == PushIfTruthy(c2, parent_id, IsClause("parent_id", parent_id))
  IN  PushIfTruthy(c3, assignee_id,
        "assignments any (" \o IsClause("resource_id", assignee_id) \o ")")

\* The conditions of ftrack_list_tasks, in the order the handler pushes them.
TaskConditions(a) ==
  LET project_id == ToolArg(a, "project_id")
      parent_id == ToolArg(a, "parent_id")
      assignee_id == ToolArg(a, "assignee_id")
      status == ToolArg(a, "status")
      c1 == PushIfTruthy(<<>>, project_id, IsClause("project_id", project_id))
      c2 == PushIfTruthy(c1, parent_id, IsClause("parent_id", parent_id))
      c3 == PushIfTruthy(c2, assignee_id,
              "assignments any (" \o IsClause("resource_id", assignee_id) \o ")")
  IN  PushIfTruthy(c3, status, IsClause("status.name", status))

ftrack_list_tasks(a) ==
  QueryCall(TaskProjection \o WhereOf(TaskConditions(a))
            \o " limit " \o ToStr(ToolArg(a, "limit")))

ftrack_list_users(a) ==
  LET include_inactive == ToolArg(a, "include_inactive")
      limit == ToolArg(a, "limit")
  IN  QueryCall("select id, username, first_name, last_name, email, is_active from User"
                \o (IF ~Truthy(include_inactive)
                    THEN " where is_active is true" ELSE "")
                \o " limit " \o ToStr(limit))

ftrack_list_asset_versions(a) ==
  LET asset_id == ToolArg(a, "asset_id")
      task_id == ToolArg(a, "task_id")
      c1 == PushIfTruthy(<<>>, asset_id, IsClause("asset_id", asset_id))
      c2 == PushIfTruthy(c1, task_id, IsClause("task_id", task_id))
  IN  QueryCall("select id, version, asset.name, task.name, user.username, date, comment from AssetVersion"
                \o WhereOf(c2)
                \o " order by version descending limit " \o ToStr(ToolArg(a, "limit")))

ftrack_list_statuses ==
  QueryCall("select id, name, color, sort from Status order by sort")

ftrack_list_types ==
  QueryCall("select id, name, sort from Type order by sort")

ftrack_list_priorities ==
  QueryCall("select id, name, color, sort from Priority order by sort")

\* A variant that selects nothing when there are no projections.
ftrack_get_entity_NoStar(a) ==
  LET projections == ToolArg(a, "projections")
      attrs == IF projections.t = "array"
               THEN Join([n \in DOMAIN projections.v |-> ToStr(projections.v[n])], ", ")
               ELSE ""
  IN  QueryCall("select " \o attrs \o " from " \o ToStr(ToolArg(a, "entity_type"))
                \o " where " \o IsClause("id", ToolArg(a, "entity_id")))

\* projections?.length ? projections.join(', ') : '*'
ftrack_get_entity(a) ==
  LET projections == ToolArg(a, "projections")
      attrs == IF projections.t = "array" /\ Len(projections.v) > 0
               THEN Join([n \in DOMAIN projections.v |-> ToStr(projections.v[n])], ", ")
               ELSE "*"
  IN  QueryCall("select " \o attrs \o " from " \o ToStr(ToolArg(a, "entity_type"))
                \o " where " \o IsClause("id", ToolArg(a, "entity_id")))

ftrack_create_note(a) ==
  LET noteData ==
        Put(Put(Put(EmptyObject, "content", ToolArg(a, "content")),
                "parent_type", ToolArg(a, "entity_type")),
            "parent_id", ToolArg(a, "entity_id"))
  IN  MethodCall("create",
                 <<Str("Note"),
                   ObjectLiteral(PutIfTruthy(noteData, "author_id",
                                             ToolArg(a, "author_id")))>>,
                 NoOptions)

ftrack_list_notes(a) ==
  QueryCall("select id, content, author.username, date from Note where "
            \o IsClause("parent_type", ToolArg(a, "entity_type")) \o " and "
            \o IsClause("parent_id", ToolArg(a, "entity_id"))
            \o " order by date descending limit " \o ToStr(ToolArg(a, "limit")))

\* client.update('Task', task_id, { status_id })
ftrack_update_task_status(a) ==
  MethodCall("update",
             <<Str("Task"), ToolArg(a, "task_id"),
               ObjectLiteral(Put(EmptyObject, "status_id", ToolArg(a, "status_id")))>>,
             NoOptions)

ftrack_assign_user_to_task(a) ==
  MethodCall("create",
             <<Str("Appointment"),
               ObjectLiteral(Put(Put(Put(EmptyObject, "context_id", ToolArg(a, "task_id")),
                                     "resource_id", ToolArg(a, "user_id")),
                                 "type", Str("assignment")))>>,
             NoOptions)

ftrack_list_security_roles ==
  QueryCall("select id, name, type from SecurityRole")

ftrack_list_review_sessions(a) ==
  LET project_id == ToolArg(a, "project_id") IN
  QueryCall("select id, name, description, created_at, end_date from ReviewSession"
            \o (IF Truthy(project_id)
                THEN " where " \o IsClause("project_id", project_id) ELSE "")
            \o " order by created_at descending limit " \o ToStr(ToolArg(a, "limit")))

\* The client call the handler of a tool makes from its parsed arguments a,
\* its options mapping and (for ftrack_batch) its operations.
Handler(tool, a, options, operations) ==
  CASE tool = "ftrack_batch" -> BatchCall(operations)
    [] tool = "ftrack_list_projects" -> ftrack_list_projects(a)
    [] tool = "ftrack_list_tasks" -> ftrack_list_tasks(a)
    [] tool = "ftrack_list_users" -> ftrack_list_users(a)
    [] tool = "ftrack_list_asset_versions" -> ftrack_list_asset_versions(a)
    [] tool = "ftrack_list_statuses" -> ftrack_list_statuses
    [] tool = "ftrack_list_types" -> ftrack_list_types
    [] tool = "ftrack_list_priorities" -> ftrack_list_priorities
    [] tool = "ftrack_get_entity" -> ftrack_get_entity(a)
    [] tool = "ftrack_create_note" -> ftrack_create_note(a)
    [] tool = "ftrack_list_notes" -> ftrack_list_notes(a)
    [] tool = "ftrack_update_task_status" -> ftrack_update_task_status(a)
    [] tool = "ftrack_assign_user_to_task" -> ftrack_assign_user_to_task(a)
    [] tool = "ftrack_list_security_roles" -> ftrack_list_security_roles
    [] tool = "ftrack_list_review_sessions" -> ftrack_list_review_sessions(a)
    [] OTHER -> PassThroughCall(tool, a, options)

\* A tool invocation by the host: what the host sent (tool, targs, toptions)
\* together with the client call the handler makes of it.
ToolCall(tool, a, options, operations) ==
  [tool |-> tool, targs |-> a, toptions |-> options]
    @@ Handler(tool, ZodParse(tool, a), options, operations)

\* The parameter schema of each tool: the required and the optional
\* parameters, and whether it takes an options mapping.
ToolSchema(tool) ==
  CASE tool = "ftrack_query" ->
         [required |-> {"expression"}, optional |-> {}, options |-> FALSE]
    [] tool = "ftrack_parse_query" ->
         [required |-> {"expression"}, optional |-> {}, options |-> FALSE]
    [] tool = "ftrack_query_schemas" ->
         [required |-> {}, optional |-> {}, options |-> FALSE]
    [] tool = "ftrack_query_server_information" ->
         [required |-> {}, optional |-> {}, options |-> FALSE]
    [] tool = "ftrack_search" ->
         [required |-> {"expression"}, optional |-> {"entity_type", "terms", "context_id", "object_type_ids"}, options |-> FALSE]
    [] tool = "ftrack_create" ->
         [required |-> {"entity_type", "entity_data"}, optional |-> {}, options |-> FALSE]
    [] tool = "ftrack_update" ->
         [required |-> {"entity_type", "entity_id", "entity_data"}, optional |-> {}, options |-> FALSE]
    [] tool = "ftrack_delete" ->
         [required |-> {"entity_type", "entity_id"}, optional |-> {}, options |-> FALSE]
    [] tool = "ftrack_add_user_security_role" ->
         [required |-> {"user_id", "security_role_id"}, optional |-> {}, options |-> FALSE]
    [] tool = "ftrack_remove_user_security_role" ->
         [required |-> {"user_id", "security_role_id"}, optional |-> {}, options |-> FALSE]
    [] tool = "ftrack_update_user_security_role" ->
         [required |-> {"user_id", "security_role_id"}, optional |-> {"is_active"}, options |-> FALSE]
    [] tool = "ftrack_grant_user_security_role_project" ->
         [required |-> {"user_id", "security_role_id", "project_id"}, optional |-> {}, options |-> FALSE]
    [] tool = "ftrack_revoke_user_security_role_project" ->
         [required |-> {"user_id", "security_role_id", "project_id"}, optional |-> {}, options |-> FALSE]
    [] tool = "ftrack_assume_user" ->
         [required |-> {"user_id"}, optional |-> {}, options |-> FALSE]
    [] tool = "ftrack_un_assume_user" ->
         [required |-> {}, optional |-> {}, options |-> FALSE]
    [] tool = "ftrack_send_user_invite" ->
         [required |-> {"user_id"}, optional |-> {"email"}, options |-> FALSE]
    [] tool = "ftrack_grant_api_key_project" ->
         [required |-> {"api_key_id", "project_id"}, optional |-> {}, options |-> FALSE]
    [] tool = "ftrack_revoke_api_key_project" ->
         [required |-> {"api_key_id", "project_id"}, optional |-> {}, options |-> FALSE]
    [] tool = "ftrack_grant_api_key_security_role" ->
         [required |-> {"api_key_id", "security_role_id"}, optional |-> {}, options |-> FALSE]
    [] tool = "ftrack_revoke_api_key_security_role" ->
         [required |-> {"api_key_id", "security_role_id"}, optional |-> {}, options |-> FALSE]
    [] tool = "ftrack_configure_otp" ->
         [required |-> {"user_id", "otp_type"}, optional |-> {}, options |-> FALSE]
    [] tool = "ftrack_configure_totp" ->
         [required |-> {"user_id"}, optional |-> {}, options |-> FALSE]
    [] tool = "ftrack_generate_totp" ->
         [required |-> {"user_id"}, optional |-> {}, options |-> FALSE]
    [] tool = "ftrack_disable_2fa" ->
         [required |-> {"user_id"}, optional |-> {}, options |-> FALSE]
    [] tool = "ftrack_get_upload_metadata" ->
         [required |-> {"component_id", "file_size"}, optional |-> {"file_name", "checksum"}, options |-> FALSE]
    [] tool = "ftrack_complete_multipart_upload" ->
         [required |-> {"component_id", "upload_id", "parts"}, optional |-> {}, options |-> FALSE]
    [] tool = "ftrack_generate_signed_url" ->
         [required |-> {"component_id"}, optional |-> {"operation"}, options |-> FALSE]
    [] tool = "ftrack_encode_media" ->
         [required |-> {"component_id"}, optional |-> {}, options |-> TRUE]
    [] tool = "ftrack_convert_entity" ->
         [required |-> {"entity_type", "entity_id", "target_type"}, optional |-> {}, options |-> FALSE]
    [] tool = "ftrack_permissions" ->
         [required |-> {"entity_type", "entity_id"}, optional |-> {"actions"}, options |-> FALSE]
    [] tool = "ftrack_storage_usage" ->
         [required |-> {}, optional |-> {"project_id"}, options |-> FALSE]
    [] tool = "ftrack_send_review_session_invite" ->
         [required |-> {"review_session_id", "email"}, optional |-> {"name", "message"}, options |-> FALSE]
    [] tool = "ftrack_reset_remote_api_key" ->
         [required |-> {"user_id"}, optional |-> {}, options |-> FALSE]
    [] tool = "ftrack_reset_remote_password" ->
         [required |-> {"user_id"}, optional |-> {}, options |-> FALSE]
    [] tool = "ftrack_csv_import_delayed_job" ->
         [required |-> {"job_data"}, optional |-> {}, options |-> FALSE]
    [] tool = "ftrack_delete_delayed_job" ->
         [required |-> {"entity_type", "entity_id"}, optional |-> {}, options |-> FALSE]
    [] tool = "ftrack_export_review_session_feedback_delayed_job" ->
         [required |-> {"review_session_id"}, optional |-> {}, options |-> TRUE]
    [] tool = "ftrack_iconik_sync_structure_delayed_job" ->
         [required |-> {"project_id"}, optional |-> {}, options |-> TRUE]
    [] tool = "ftrack_sync_ldap_users_delayed_job" ->
         [required |-> {}, optional |-> {}, options |-> TRUE]
    [] tool = "ftrack_batch" ->
         [required |-> {}, optional |-> {}, options |-> FALSE]
    [] tool = "ftrack_list_projects" ->
         [required |-> {}, optional |-> {"include_archived", "limit"}, options |-> FALSE]
    [] tool = "ftrack_list_tasks" ->
         [required |-> {}, optional |-> {"project_id", "parent_id", "assignee_id", "status", "limit"}, options |-> FALSE]
    [] tool = "ftrack_list_users" ->
         [required |-> {}, optional |-> {"include_inactive", "limit"}, options |-> FALSE]
    [] tool = "ftrack_list_asset_versions" ->
         [required |-> {}, optional |-> {"asset_id", "task_id", "limit"}, options |-> FALSE]
    [] tool = "ftrack_list_statuses" ->
         [required |-> {}, optional |-> {}, options |-> FALSE]
    [] tool = "ftrack_list_types" ->
         [required |-> {}, optional |-> {}, options |-> FALSE]
    [] tool = "ftrack_list_priorities" ->
         [required |-> {}, optional |-> {}, options |-> FALSE]
    [] tool = "ftrack_get_entity" ->
         [required |-> {"entity_type", "entity_id"}, optional |-> {"projections"}, options |-> FALSE]
    [] tool = "ftrack_create_note" ->
         [required |-> {"entity_type", "entity_id", "content"}, optional |-> {"author_id"}, options |-> FALSE]
    [] tool = "ftrack_list_notes" ->
         [required |-> {"entity_type", "entity_id"}, optional |-> {"limit"}, options |-> FALSE]
    [] tool = "ftrack_update_task_status" ->
         [required |-> {"task_id", "status_id"}, optional |-> {}, options |-> FALSE]
    [] tool = "ftrack_assign_user_to_task" ->
         [required |-> {"task_id", "user_id"}, optional |-> {}, options |-> FALSE]
    [] tool = "ftrack_list_security_roles" ->
         [required |-> {}, optional |-> {}, options |-> FALSE]
    [] tool = "ftrack_list_review_sessions" ->
         [required |-> {}, optional |-> {"project_id", "limit"}, options |-> FALSE]

Tools ==
  {"ftrack_query", "ftrack_parse_query", "ftrack_query_schemas",
   "ftrack_query_server_information", "ftrack_search", "ftrack_create",
   "ftrack_update", "ftrack_delete", "ftrack_add_user_security_role",
   "ftrack_remove_user_security_role", "ftrack_update_user_security_role",
   "ftrack_grant_user_security_role_project",
   "ftrack_revoke_user_security_role_project", "ftrack_assume_user",
   "ftrack_un_assume_user", "ftrack_send_user_invite",
   "ftrack_grant_api_key_project", "ftrack_revoke_api_key_project",
   "ftrack_grant_api_key_security_role",
   "ftrack_revoke_api_key_security_role", "ftrack_configure_otp",
   "ftrack_configure_totp", "ftrack_generate_totp", "ftrack_disable_2fa",
   "ftrack_get_upload_metadata", "ftrack_complete_multipart_upload",
   "ftrack_generate_signed_url", "ftrack_encode_media",
   "ftrack_convert_entity", "ftrack_permissions", "ftrack_storage_usage",
   "ftrack_send_review_session_invite", "ftrack_reset_remote_api_key",
   "ftrack_reset_remote_password", "ftrack_csv_import_delayed_job",
   "ftrack_delete_delayed_job",
   "ftrack_export_review_session_feedback_delayed_job",
   "ftrack_iconik_sync_structure_delayed_job",
   "ftrack_sync_ldap_users_delayed_job", "ftrack_batch",
   "ftrack_list_projects", "ftrack_list_tasks", "ftrack_list_users",
   "ftrack_list_asset_versions", "ftrack_list_statuses", "ftrack_list_types",
   "ftrack_list_priorities", "ftrack_get_entity", "ftrack_create_note",
   "ftrack_list_notes", "ftrack_update_task_status",
   "ftrack_assign_user_to_task", "ftrack_list_security_roles",
   "ftrack_list_review_sessions"}

-----------------------------------------------------------------------------
(* The tools over their arguments: every tool invoked by the host with     *)
(* every combination of the values its schema admits.                      *)

\* Values the schema of a parameter admits.
ParamValues(k) ==
  CASE k \in {"entity_data", "job_data"} -> {Object("data")}
    [] k = "file_size" -> {Num("1024")}
    [] k = "limit" -> {Num("5")}
    [] k \in {"terms", "object_type_ids", "actions", "projections"} ->
         {List(<<>>), List(<<Str("a"), Str("b")>>)}
    [] k = "parts" -> {List(<<Object("part")>>)}
    [] k \in {"is_active", "include_archived", "include_inactive"} ->
         {Bool("true"), Bool("false")}
    [] k = "operation" -> {Str("get"), Str("put")}
    [] k = "entity_type" -> {Str("Task")}
    [] k = "status" -> {Str(""), Str("In Progress")}
    [] OTHER -> {Str(""), Str("id1")}

\* The argument mappings the host can send to a tool: a value for every
\* required parameter, and for any of the optional ones.
ArgMaps(tool) ==
  LET s == ToolSchema(tool)
      keys == s.required \cup s.optional
      dom(k) == IF k \in s.optional THEN ParamValues(k) \cup {Undefined}
                ELSE ParamValues(k)
      all == {f \in [keys -> UNION {dom(k) : k \in keys}] :
                \A k \in keys : f[k] \in dom(k)}
  IN  {[k \in {x \in keys : f[x] # Undefined} |-> f[k]] : f \in all}

ToolCallsOf(tool) ==
  {ToolCall(tool, a, o, ops) :
     a \in ArgMaps(tool),
     o \in (IF ToolSchema(tool).options THEN OptionArgs ELSE {NoOptions}),
     ops \in (IF tool = "ftrack_batch" THEN SeqsUpTo(SampleOps, MaxOps)
              ELSE {<<>>})}

ToolCalls == UNION {ToolCallsOf(tool) : tool \in Tools}

ToolResponses ==
  BuildResponses
    \cup {Response(TRUE, "200", JsonText(<<EData, EErrA>>)),
          Response(TRUE, "200", JsonText(<<EData, EData>>)),
          Response(TRUE, "200", JsonText(<<>>))}

\* The answer of a transport that echoes the Operation it received:
\* [{ content: <operation> }].
EchoOf(body) ==
  JsonText([n \in 1 .. 1 |->
              Elem(ObjectLiteral("content" :> ObjectLiteral(body[n])),
                   Undefined, ObjectLiteral(body[n]))])

\* The echoing transport answers the pending single-operation request.
Echo(i) ==
  /\ pc[i] = "awaitFetch"
  /\ Len(request[i].body) = 1
  /\ FetchResolves(i, Response(TRUE, "200", EchoOf(request[i].body)))

NextTools ==
  \E i \in Invocations :
    \/ Dispatch(i, ToolCalls)
    \/ FetchRejects(i)
    \/ Respond(i, ToolResponses)
    \/ Echo(i)
    \/ TextResolves(i)
    \/ JsonResolves(i)
    \/ Return(i)

SpecTools == Init /\ [][NextTools]_vars

-----------------------------------------------------------------------------
(* Startup: index.js constructs the client from the environment, exits if  *)
(* the constructor throws, and serves the tools otherwise.  The            *)
(* constructor is also taken with arguments of its own.                    *)

\* process.env: each variable unset, empty or set; the server URL also with
\* one and with two slashes at its end.
Envs ==
  {Env(s, u, k) :
     s \in {Undefined, Str(""), Str("https://e"), Str("https://e/"),
            Str("https://e//")},
     u \in {Undefined, Str("eu")},
     k \in {Undefined, Str("ek")}}

\* new FtrackClient(process.env.FTRACK_SERVER, process.env.FTRACK_API_USER,
\*                  process.env.FTRACK_API_KEY)
ProgramStarts ==
  {Process("starting",
           <<e.FTRACK_SERVER, e.FTRACK_API_USER, e.FTRACK_API_KEY>>, e) :
     e \in Envs}

\* new FtrackClient(serverUrl, apiUser, apiKey) with arguments of its own.
LibraryStarts ==
  {Process("starting", <<s, u, k>>, e) :
     s \in {Undefined, Str(""), Str("/"), Str("https://h"), Str("https://h/"),
            Str("https://h//")},
     u \in {Undefined, Str(""), Str("u")},
     k \in {Undefined, Str(""), Str("k")},
     e \in Envs}

InitStart ==
  /\ proc \in ProgramStarts \cup LibraryStarts
  /\ client = NoClient
  /\ pc = [i \in Invocations |-> "idle"]
  /\ inv = [i \in Invocations |-> NoCall]
  /\ request = [i \in Invocations |-> NoRequest]
  /\ posts = [i \in Invocations |-> 0]
  /\ resp = [i \in Invocations |-> NoResponse]
  /\ callOut = [i \in Invocations |-> NoOutcome]
  /\ toolOut = [i \in Invocations |-> NoToolResponse]

\* A start that would go on to connect the server after the constructor
\* has failed.
Start_ContinuesAfterFailure ==
  /\ proc.phase = "starting"
  /\ LET c == Construct(proc.args[1], proc.args[2], proc.args[3], proc.env) IN
       IF c.thrown # ""
       THEN /\ proc' = [proc EXCEPT !.phase = "serving",
                                    !.stderr = FailureLines(c.thrown)]
            /\ client' = NoClient
       ELSE /\ proc' = [proc EXCEPT !.phase = "serving"]
            /\ client' = c.client
  /\ UNCHANGED <<pc, inv, request, posts, resp, callOut, toolOut>>

\* try { client = new FtrackClient(...) } catch (error) { console.error(...);
\* process.exit(1) }; after it the tools are registered and main() calls
\* server.connect(transport).
Start ==
  /\ proc.phase = "starting"
  /\ LET c == Construct(proc.args[1], proc.args[2], proc.args[3], proc.env) IN
       IF c.thrown # ""
       THEN /\ proc' = [proc EXCEPT !.phase = "exited", !.exit = <<1>>,
                                    !.stderr = FailureLines(c.thrown)]
            /\ client' = NoClient
       ELSE /\ proc' = [proc EXCEPT !.phase = "serving"]
            /\ client' = c.client
  /\ UNCHANGED <<pc, inv, request, posts, resp, callOut, toolOut>>

\* await server.connect(transport) resolves and main() goes on:
\* console.error('ftrack MCP server started').
Connect ==
  /\ proc.phase = "serving"
  /\ ~proc.connected
  /\ proc' = [proc EXCEPT !.connected = TRUE,
                          !.stderr = Append(@, ReadinessLine)]
  /\ UNCHANGED <<client, pc, inv, request, posts, resp, callOut, toolOut>>

NextStart ==
  \/ Start
  \/ Connect
  \/ \E i \in Invocations :
       \/ Dispatch(i, SampleMethodCalls)
       \/ FetchRejects(i)
       \/ Respond(i, BuildResponses)
       \/ TextResolves(i)
       \/ JsonResolves(i)
       \/ Return(i)

SpecStart == InitStart /\ [][NextStart]_vars

\* The module's top-level code and the continuation of main() run without
\* waiting for the host.
SpecStartFair == SpecStart /\ WF_vars(Start) /\ WF_vars(Connect)

-----------------------------------------------------------------------------
(* Interleaving: the host sends a tool invocation while others are         *)
(* pending; each handler runs up to its next await.                        *)

\* The host invokes a handler with one of the given calls, whatever else is
\* pending.
DispatchPending(i, calls) ==
  /\ proc.phase = "serving"
  /\ proc.connected
  /\ pc[i] = "idle"
  /\ \E c \in calls : Invoke(i, c)

PendingCalls ==
  {MethodCall("query", <<Str("select id from Project")>>, NoOptions),
   MethodCall("assumeUser", <<Str("u1")>>, NoOptions),
   MethodCall("unAssumeUser", <<>>, NoOptions),
   MethodCall("resetRemoteApiKey", <<Str("u1")>>, NoOptions),
   BatchCall(<<OpQuery, OpDelete>>)}

PendingResponses ==
  {Response(TRUE, "200", JsonText(<<EData>>)),
   Response(TRUE, "200", JsonText(<<EData, EErrA>>)),
   Response(FALSE, "500", Lit("Not Found"))}

NextInterleaved ==
  \E i \in Invocations :
    \/ DispatchPending(i, PendingCalls)
    \/ FetchRejects(i)
    \/ Respond(i, PendingResponses)
    \/ TextResolves(i)
    \/ JsonResolves(i)
    \/ Return(i)

SpecInterleaved == Init /\ [][NextInterleaved]_vars

-----------------------------------------------------------------------------
(* The scan of the results: every kind of element an HTTP-ok response can  *)
(* carry, in every arrangement up to MaxResults elements.                  *)

EZero == Elem(Num("0"), Undefined, Undefined)
EList == Elem(List(<<Str("a")>>), Undefined, Undefined)
ScanElems == {ENull, EZero, EScalar, EList, EData, EFalsy, EErrA}

ScanResponses ==
  {Response(TRUE, "200", JsonText(a)) : a \in SeqsUpTo(ScanElems, MaxResults)}
    \cup {Response(FALSE, "500", Lit("Not Found"))}

ScanCalls ==
  {BatchCall(<<OpQuery, OpDelete>>),
   MethodCall("query", <<Str("select id from Task")>>, NoOptions)}

NextScan ==
  \E i \in Invocations :
    \/ Dispatch(i, ScanCalls)
    \/ FetchRejects(i)
    \/ Respond(i, ScanResponses)
    \/ TextResolves(i)
    \/ JsonResolves(i)
    \/ Return(i)

SpecScan == Init /\ [][NextScan]_vars

-----------------------------------------------------------------------------
(* The entry points of the transport primitive, side by side: batch, a     *)
(* direct call with an array, a direct call with a bare Operation, and a   *)
(* convenience method that ends in callOne.                                *)

PrimitiveCalls ==
  {BatchCall(<<OpQuery>>), ExecuteCall(<<OpQuery>>),
   BatchCall(<<OpQuery, OpDelete>>), ExecuteCall(<<OpQuery, OpDelete>>),
   SingleCall(OpQuery),
   MethodCall("query", <<Str("select id from Task")>>, NoOptions)}

PrimitiveResponses ==
  {Response(TRUE, "200", JsonText(<<EData>>)),
   Response(TRUE, "200", JsonText(<<EData, EErrA>>)),
   Response(TRUE, "200", JsonText(<<EErrA, EData>>)),
   Response(TRUE, "200", JsonText(<<>>)),
   Response(FALSE, "500", Lit("Not Found"))}

NextPrimitives ==
  \E i \in Invocations :
    \/ DispatchPending(i, PrimitiveCalls)
    \/ FetchRejects(i)
    \/ Respond(i, PrimitiveResponses)
    \/ TextResolves(i)
    \/ JsonResolves(i)
    \/ Return(i)

SpecPrimitives == Init /\ [][NextPrimitives]_vars

-----------------------------------------------------------------------------
(* Properties of execute (FtrackClient.call).                              *)

\* The invocation i has ended after an HTTP-ok response whose body parsed.
ParsedOk(i) ==
  pc[i] = "done" /\ resp[i].received /\ resp[i].ok /\ IsJson(resp[i].body)

\* The positions (from 1) of the error markers of a result array.
Markers(arr) == {k \in DOMAIN arr : IsErrorMarker(arr[k])}

\* No piece of a text carries a result element.
NoResultIn(text) == \A n \in DOMAIN text : text[n].arr = <<>>

\* call() failed with the operation error for position k (from 1) of arr.
FailedAt(i, arr, k) ==
  /\ callOut[i].kind = "threw"
  /\ Len(callOut[i].message) = 4
  /\ callOut[i].message[1] = Lit("Operation ")
  /\ callOut[i].message[2] = Lit(ToString(k - 1))
  /\ callOut[i].message[4] = Lit(ToStr(arr[k].content))

\* C1: after an HTTP-ok round trip whose result array holds an error marker,
\* execute fails with the zero-based position and the message content of the
\* FIRST error marker, and no result of the batch reaches the caller.
C1_FirstErrorWins ==
  \A i \in Invocations :
    ParsedOk(i) =>
      LET arr == ParseJson(resp[i].body) IN
      Markers(arr) # {} =>
        \E k \in Markers(arr) :
          /\ \A j \in Markers(arr) : k <= j
          /\ FailedAt(i, arr, k)
          /\ callOut[i].results = <<>>
          /\ NoResultIn(callOut[i].message)
          /\ NoResultIn(toolOut[i].text)

\* C1 witness: a batch ended on a response with a success payload first and
\* two error markers after it.
C1_Witness ==
  \E i \in Invocations :
    /\ ParsedOk(i)
    /\ inv[i].kind = "batch"
    /\ ParseJson(resp[i].body) = <<EData, EErrA, EErrB>>
    /\ callOut[i].kind = "threw"

\* A batch of two operations has ended on an HTTP-ok response with an error
\* marker at index 1.
TwoOpsMarkerAtOne(i) ==
  /\ ParsedOk(i)
  /\ Len(request[i].operations) = 2
  /\ Len(ParseJson(resp[i].body)) >= 2
  /\ IsErrorMarker(ParseJson(resp[i].body)[2])

\* C2 as stated: with an error marker at index 1 of a 2-operation batch,
\* execute fails naming index 1 and that marker's message whatever index 0
\* holds, another error marker included.
C2_Original ==
  \A i \in Invocations :
    TwoOpsMarkerAtOne(i) => FailedAt(i, ParseJson(resp[i].body), 2)

\* C2 amended: with an error marker at index 1 of a 2-operation batch,
\* execute fails naming index 1 and that marker's message whatever index 0
\* holds, unless index 0 is itself an error marker; then it fails naming
\* index 0 and the message of the marker at index 0.
C2_IndexOneUnlessIndexZeroFails ==
  \A i \in Invocations :
    TwoOpsMarkerAtOne(i) =>
      LET arr == ParseJson(resp[i].body) IN
      IF IsErrorMarker(arr[1]) THEN FailedAt(i, arr, 1) ELSE FailedAt(i, arr, 2)

\* C2 witness: a 2-operation batch ended on [null, error marker].
C2_Witness ==
  \E i \in Invocations :
    /\ TwoOpsMarkerAtOne(i)
    /\ ParseJson(resp[i].body) = <<ENull, EErrA>>
    /\ callOut[i].kind = "threw"

\* C3: on an HTTP-ok response without error marker, execute returns exactly
\* the transport's result array: same length, element k the response's
\* element k.
C3_ResultsPassThrough ==
  \A i \in Invocations :
    ParsedOk(i) =>
      LET arr == ParseJson(resp[i].body) IN
      Markers(arr) = {} =>
        /\ callOut[i].kind = "returned"
        /\ Len(callOut[i].results) = Len(arr)
        /\ \A k \in DOMAIN arr : callOut[i].results[k] = arr[k]

\* C3 witness: a 2-operation batch returned [payload, null, scalar].
C3_Witness ==
  \E i \in Invocations :
    /\ ParsedOk(i)
    /\ inv[i].kind = "batch"
    /\ Len(request[i].operations) = 2
    /\ callOut[i] = Returned(<<EData, ENull, EScalar>>)

\* C4 as stated: a sequence execute returns is as long as the sequence of
\* operations that was sent.
C4_SameLength ==
  \A i \in Invocations :
    (pc[i] = "done" /\ callOut[i].kind = "returned") =>
      Len(callOut[i].results) = Len(request[i].operations)

\* C5: every invocation of execute makes exactly one transport call, which
\* carries all its operations, whatever the outcome.
C5_OnePost ==
  \A i \in Invocations :
    /\ pc[i] = "idle" => posts[i] = 0
    /\ pc[i] # "idle" =>
         /\ posts[i] = 1
         /\ request[i].sent
         /\ request[i].method = "POST"
         /\ request[i].operations = WrapOperations(CallArgument(inv[i]))

\* C5 witness: an invocation ended by a network failure, after one POST.
C5_Witness ==
  \E i \in Invocations :
    /\ pc[i] = "done"
    /\ ~resp[i].received
    /\ callOut[i] = Threw(FetchFailedMessage)
    /\ posts[i] = 1

\* The invocation i has ended after a response with a non-success status.
HttpFailed(i) == pc[i] = "done" /\ resp[i].received /\ ~resp[i].ok

\* C6: on a non-success status execute fails with a message that holds the
\* status code and the raw body text; the body is not read as results, no
\* operation error is raised from it, and nothing is returned.
C6_StatusAndBody ==
  \A i \in Invocations :
    HttpFailed(i) =>
      /\ callOut[i].kind = "threw"
      /\ \E n \in DOMAIN callOut[i].message :
           callOut[i].message[n] = Lit(resp[i].status)
      /\ \E n \in DOMAIN callOut[i].message :
           callOut[i].message[n] = resp[i].body
      /\ callOut[i].message[1] # Lit("Operation ")
      /\ callOut[i].results = <<>>

\* C6 witness: a 500 whose body is a JSON array holding an error marker.
C6_Witness ==
  \E i \in Invocations :
    /\ HttpFailed(i)
    /\ resp[i].status = "500"
    /\ resp[i].body = JsonText(<<EData, EErrA>>)
    /\ callOut[i].kind = "threw"

\* The tool invocation i has ended by a network failure: fetch rejected and
\* there is no response.
NetworkFailed(i) ==
  pc[i] = "done" /\ ~resp[i].received /\ inv[i].kind # "call"

StatusCodes == {"200", "404", "500"}

\* C7 as stated: a network failure reaches the tool caller as the formatted
\* error string of a non-success status, with status code and raw body text.
C7_Original ==
  \A i \in Invocations :
    NetworkFailed(i) =>
      /\ toolOut[i].isError
      /\ \E st \in StatusCodes, n \in DOMAIN toolOut[i].text :
           toolOut[i].text[n] = Lit(st)

\* C7 amended: a network failure reaches the tool caller as the flagged text
\* `Error: <message of the transport's error>`; it holds no status code and
\* no body text (only a non-success status is reported with those).
C7_NetworkFailureText ==
  \A i \in Invocations :
    NetworkFailed(i) =>
      /\ toolOut[i].kind = "responded"
      /\ toolOut[i].isError
      /\ toolOut[i].text = <<Lit("Error: ")>> \o FetchFailedMessage
      /\ \A st \in StatusCodes, n \in DOMAIN toolOut[i].text :
           toolOut[i].text[n] # Lit(st)

\* C7 witness: a tool invocation ended by a network failure.
C7_Witness ==
  \E i \in Invocations :
    /\ NetworkFailed(i)
    /\ inv[i].kind = "method"
    /\ toolOut[i].kind = "responded"

-----------------------------------------------------------------------------
(* Properties of the convenience methods.                                  *)

\* The documented action literal of each convenience method.
ActionLiteral(m) ==
  CASE m = "query" -> "query"
    [] m = "parseQuery" -> "parse_query"
    [] m = "querySchemas" -> "query_schemas"
    [] m = "queryServerInformation" -> "query_server_information"
    [] m = "search" -> "search"
    [] m = "create" -> "create"
    [] m = "update" -> "update"
    [] m = "delete" -> "delete"
    [] m = "addUserSecurityRole" -> "add_user_security_role"
    [] m = "removeUserSecurityRole" -> "remove_user_security_role"
    [] m = "updateUserSecurityRole" -> "update_user_security_role"
    [] m = "grantUserSecurityRoleProject" -> "grant_user_security_role_project"
    [] m = "revokeUserSecurityRoleProject" -> "revoke_user_security_role_project"
    [] m = "assumeUser" -> "assume_user"
    [] m = "unAssumeUser" -> "un_assume_user"
    [] m = "sendUserInvite" -> "send_user_invite"
    [] m = "grantApiKeyProject" -> "grant_api_key_project"
    [] m = "revokeApiKeyProject" -> "revoke_api_key_project"
    [] m = "grantApiKeySecurityRole" -> "grant_api_key_security_role"
    [] m = "revokeApiKeySecurityRole" -> "revoke_api_key_security_role"
    [] m = "configureOtp" -> "configure_otp"
    [] m = "configureTotp" -> "configure_totp"
    [] m = "generateTotp" -> "generate_totp"
    [] m = "disable2FA" -> "disable_2fa"
    [] m = "getUploadMetadata" -> "get_upload_metadata"
    [] m = "completeMultipartUpload" -> "complete_multipart_upload"
    [] m = "generateSignedUrl" -> "generate_signed_url"
    [] m = "encodeMedia" -> "encode_media"
    [] m = "convertEntity" -> "convert_entity"
    [] m = "permissions" -> "permissions"
    [] m = "storageUsage" -> "storage_usage"
    [] m = "sendReviewSessionInvite" -> "send_review_session_invite"
    [] m = "resetRemoteApiKey" -> "reset_remote"
    [] m = "resetRemotePassword" -> "reset_remote"
    [] m = "csvImportDelayedJob" -> "delayed_job"
    [] m = "deleteDelayedJob" -> "delayed_job"
    [] m = "exportReviewSessionFeedbackDelayedJob" -> "delayed_job"
    [] m = "iconikSyncStructureDelayedJob" -> "delayed_job"
    [] m = "syncLdapUsersDelayedJob" -> "delayed_job"

\* The invocation i is a convenience method whose Operation has been sent.
MethodSent(i) == pc[i] # "idle" /\ inv[i].kind = "method"

\* C8 as stated: for every convenience method and every argument, free-form
\* options included, the action field of the Operation that is sent is the
\* documented literal of the method.
C8_ActionIsLiteral ==
  \A i \in Invocations :
    MethodSent(i) =>
      /\ Len(request[i].body) = 1
      /\ "action" \in DOMAIN request[i].body[1]
      /\ request[i].body[1]["action"] = Str(ActionLiteral(inv[i].m))

\* The optional parameters without a documented default, as
\* <<argument position, Operation field>>.
OptionalParams(m) ==
  CASE m = "search" ->
         {<<2, "entity_type">>, <<3, "terms">>, <<4, "context_id">>,
          <<5, "object_type_ids">>}
    [] m = "sendUserInvite" -> {<<2, "email">>}
    [] m = "getUploadMetadata" -> {<<3, "file_name">>, <<4, "checksum">>}
    [] m = "permissions" -> {<<3, "actions">>}
    [] m = "storageUsage" -> {<<1, "project_id">>}
    [] m = "sendReviewSessionInvite" -> {<<3, "name">>, <<4, "message">>}
    [] OTHER -> {}

\* The optional parameters with a documented default.
DefaultedParams(m) ==
  CASE m = "updateUserSecurityRole" -> {<<3, "is_active">>}
    [] m = "generateSignedUrl" -> {<<2, "operation">>}
    [] OTHER -> {}

Absent(x) == x = Undefined \/ x = Null

\* C9: an optional parameter without documented default that is absent
\* (undefined, null or not passed) is no key of the built Operation, nor of
\* the Operation that is sent.
C9_AbsentOmitted ==
  \A i \in Invocations :
    MethodSent(i) =>
      \A pk \in OptionalParams(inv[i].m) :
        Absent(Arg(inv[i].args, pk[1])) =>
          /\ pk[2] \notin DOMAIN request[i].operations[1]
          /\ pk[2] \notin DOMAIN request[i].body[1]

\* C9 witness: search sent with entity_type null, terms undefined, a
\* context_id, and object_type_ids not passed.
C9_Witness ==
  \E i \in Invocations :
    /\ MethodSent(i)
    /\ inv[i].m = "search"
    /\ inv[i].args = <<Str("id1"), Null, Undefined, Str("x")>>
    /\ DOMAIN request[i].operations[1] = {"action", "expression", "context_id"}

\* C10 as stated: an optional parameter that is present (any value but
\* null/undefined, falsy values included) is copied into its field of the
\* built Operation with exactly that value.
C10_PresentCopied ==
  \A i \in Invocations :
    MethodSent(i) =>
      \A pk \in OptionalParams(inv[i].m) \cup DefaultedParams(inv[i].m) :
        ~Absent(Arg(inv[i].args, pk[1])) =>
          /\ pk[2] \in DOMAIN request[i].operations[1]
          /\ request[i].operations[1][pk[2]] = Arg(inv[i].args, pk[1])

-----------------------------------------------------------------------------
(* Properties of the tools and of the Operations they send.                *)

\* The invocation i came from the host as a call of the given tool.
FromTool(i, tool) == "tool" \in DOMAIN inv[i] /\ inv[i].tool = tool

\* C11: update(type, id, data) and delete(type, id) build an Operation whose
\* entity_key is the one-element array holding exactly the given id, never
\* the bare id, and that is what is sent; the tool ftrack_update_task_status
\* sends an update on entity type Task with entity_key [task_id] and the
\* single-field payload { status_id }.
C11_EntityKeyIsOneElement ==
  \A i \in Invocations :
    MethodSent(i) /\ inv[i].m \in {"update", "delete"} =>
      LET op == request[i].operations[1]
          id == Arg(inv[i].args, 2)
      IN  /\ "entity_key" \in DOMAIN op
          /\ op["entity_key"].t = "array"
          /\ op["entity_key"].v = <<id>>
          /\ request[i].body[1]["entity_key"] = List(<<id>>)
          /\ FromTool(i, "ftrack_update_task_status") =>
               /\ request[i].body[1] =
                    update(Str("Task"), ToolArg(inv[i].targs, "task_id"),
                           ObjectLiteral("status_id" :>
                                           ToolArg(inv[i].targs, "status_id")))
               /\ op["entity_key"] = List(<<ToolArg(inv[i].targs, "task_id")>>)
               /\ DOMAIN op["entity_data"].v[1] = {"status_id"}

\* C11 witness: ftrack_update_task_status has sent its update with
\* entity_key ["id1"].
C11_Witness ==
  \E i \in Invocations :
    /\ FromTool(i, "ftrack_update_task_status")
    /\ pc[i] = "done"
    /\ inv[i].targs["task_id"] = Str("id1")
    /\ request[i].body[1]["entity_key"] = List(<<Str("id1")>>)

\* C12: generateSignedUrl called with a component id and no operation
\* argument builds an Operation whose operation field is "get"; with an
\* operation argument, the field carries the supplied value.
C12_OperationDefaultsToGet ==
  \A i \in Invocations :
    MethodSent(i) /\ inv[i].m = "generateSignedUrl" =>
      LET op == request[i].operations[1]
          supplied == Arg(inv[i].args, 2)
      IN  /\ "operation" \in DOMAIN op
          /\ op["operation"] = IF supplied = Undefined THEN Str("get") ELSE supplied
          /\ request[i].body[1]["operation"] = op["operation"]
          /\ op["component_id"] = Arg(inv[i].args, 1)

\* C12 witness: generateSignedUrl was called with the component id alone and
\* the request carries operation "get".
C12_Witness ==
  \E i \in Invocations :
    /\ MethodSent(i)
    /\ inv[i].m = "generateSignedUrl"
    /\ Len(inv[i].args) = 1
    /\ request[i].body[1]["operation"] = Str("get")

\* The sub-type each reset_remote and delayed_job method fixes.
ResetTypeOf(m) ==
  CASE m = "resetRemoteApiKey" -> "api_key"
    [] m = "resetRemotePassword" -> "password"

JobTypeOf(m) ==
  CASE m = "csvImportDelayedJob" -> "csvimportdelayedjob"
    [] m = "deleteDelayedJob" -> "deletedelayedjob"
    [] m = "exportReviewSessionFeedbackDelayedJob" -> "exportreviewsessionfeedback"
    [] m = "iconikSyncStructureDelayedJob" -> "iconiksyncstructure"
    [] m = "syncLdapUsersDelayedJob" -> "syncldapusers"

ResetMethods == {"resetRemoteApiKey", "resetRemotePassword"}

DelayedJobMethods ==
  {"csvImportDelayedJob", "deleteDelayedJob",
   "exportReviewSessionFeedbackDelayedJob", "iconikSyncStructureDelayedJob",
   "syncLdapUsersDelayedJob"}

\* C13 as stated: the Operation of a reset_remote method has reset_type
\* api_key or password, the one fixed for the method, and the Operation of a
\* delayed_job method has as job_type the one of the five legal values that
\* is fixed for the method, whatever the arguments and the merged options.
C13_SubTypeFixed ==
  \A i \in Invocations :
    MethodSent(i) =>
      LET op == request[i].operations[1] IN
      /\ inv[i].m \in ResetMethods =>
           op["reset_type"] = Str(ResetTypeOf(inv[i].m))
      /\ inv[i].m \in DelayedJobMethods =>
           op["job_type"] = Str(JobTypeOf(inv[i].m))

\* The invocation i has ended with the result of the echoing transport.
EchoReturned(i) ==
  /\ pc[i] = "done"
  /\ inv[i].kind = "method"
  /\ resp[i].received
  /\ resp[i].body = EchoOf(request[i].body)
  /\ callOut[i].kind = "returned"

\* The Operation inside the result callOne returned.
Echoed(i) == CallOneResult(callOut[i].results).content.v[1]

\* The value x of a parameter of method m is the value of some field of op,
\* or for update and delete inside a one-element array.
Recoverable(x, m, op) ==
  \E k \in DOMAIN op :
    \/ op[k] = x
    \/ m \in {"update", "delete"} /\ op[k] = List(<<x>>)

\* C14 as stated: run against a transport that echoes [{ content: <the
\* Operation it received> }], every convenience method returns a result from
\* which every supplied parameter value is recovered, entries of the options
\* mapping included, modulo the one-element array around the id of update
\* and delete.
C14_RoundTrip ==
  \A i \in Invocations :
    EchoReturned(i) =>
      /\ \A n \in DOMAIN inv[i].args :
           inv[i].args[n] # Undefined =>
             Recoverable(inv[i].args[n], inv[i].m, Echoed(i))
      /\ \A k \in DOMAIN DefaultOptions(inv[i].options) :
           /\ k \in DOMAIN Echoed(i)
           /\ Echoed(i)[k] = DefaultOptions(inv[i].options)[k]

\* The text ends with a slash.
EndsWithSlash(u) == Len(u) > 0 /\ SubSeq(u, Len(u), Len(u)) = "/"

\* Neither the argument nor the environment gives a value for the field.
Missing(arg, fromEnv) == ~Truthy(arg) /\ ~Truthy(fromEnv)

\* C15: a client exists only if server URL, API user and API key each
\* resolved to a non-empty value, from the argument or else the environment;
\* when one of them is missing the constructor fails, no client exists and
\* the process exits; a request is only ever issued by a server with a
\* complete client, and carries its identity.
C15_NoPartialClient ==
  /\ proc.phase = "serving" =>
       /\ client.serverUrl # "" /\ client.apiUser # "" /\ client.apiKey # ""
       /\ Str(client.apiUser) \in {proc.args[2], proc.env.FTRACK_API_USER}
       /\ Str(client.apiKey) \in {proc.args[3], proc.env.FTRACK_API_KEY}
       /\ Str(client.serverUrl) \in
            {OptionalStrip(proc.args[1]), proc.env.FTRACK_SERVER}
  /\ ( \/ Missing(proc.args[1], proc.env.FTRACK_SERVER)
       \/ Missing(proc.args[2], proc.env.FTRACK_API_USER)
       \/ Missing(proc.args[3], proc.env.FTRACK_API_KEY) ) =>
       /\ proc.phase # "serving"
       /\ client = NoClient
  /\ proc.phase # "serving" => client = NoClient
  /\ \A i \in Invocations :
       request[i].sent =>
         /\ proc.phase = "serving"
         /\ request[i].url = client.apiEndpoint /\ request[i].url # ""
         /\ request[i].user = client.apiUser /\ request[i].user # ""
         /\ request[i].key = client.apiKey /\ request[i].key # ""

\* C15 witness: with server URL and API user given and the API key missing
\* from argument and environment, the process has exited without a client.
C15_Witness ==
  /\ proc.phase = "exited"
  /\ Truthy(proc.args[1]) /\ Truthy(proc.args[2])
  /\ Missing(proc.args[3], proc.env.FTRACK_API_KEY)
  /\ client = NoClient

\* C16 as stated: the server URL of a constructed client does not end with a
\* slash, whether it came from the argument or from the environment and
\* however many slashes the input ended in, and the endpoint is the server
\* URL followed by /api.
C16_NoTrailingSlash ==
  proc.phase = "serving" =>
    /\ ~EndsWithSlash(client.serverUrl)
    /\ client.apiEndpoint = client.serverUrl \o "/api"

\* The handler of the tool invocation i has answered.
Answered(i) == pc[i] = "done" /\ "tool" \in DOMAIN inv[i]

\* The text is JSON text (of a result array or of one result).
IsJsonText(text) == text.s \in {"json", "json-value"}

\* The result the handler of invocation i formats: the results of a batch,
\* results[0] of every other tool.
ResultOf(i) ==
  IF inv[i].kind = "batch" THEN callOut[i].results
  ELSE <<CallOneResult(callOut[i].results)>>

\* C17 as stated: a tool invocation ends in exactly one response and nothing
\* is thrown out of the handler; the response is the text Error: <message>
\* with the error flag when the client call failed, and otherwise the
\* pretty-printed JSON text of the Result without the flag; the flag is set
\* if and only if the client call failed.
C17_OneFlaggedResponse ==
  \A i \in Invocations :
    /\ pc[i] # "done" => toolOut[i] = NoToolResponse
    /\ Answered(i) =>
         /\ toolOut[i].kind = "responded"
         /\ toolOut[i].isError <=> callOut[i].kind = "threw"
         /\ callOut[i].kind = "threw" =>
              toolOut[i].text = <<Lit("Error: ")>> \o callOut[i].message
         /\ callOut[i].kind = "returned" =>
              /\ Len(toolOut[i].text) = 1
              /\ IsJsonText(toolOut[i].text[1])
              /\ toolOut[i].text[1].arr = ResultOf(i)

\* C18: a tool invocation, of a pass-through or of a derived tool, makes one
\* client call (a convenience method, or batch) and with it exactly one
\* POST; a failure is answered once, with that one POST and no other behind
\* it.
C18_OneTransportCall ==
  \A i \in Invocations :
    /\ pc[i] = "idle" => posts[i] = 0 /\ ~request[i].sent
    /\ pc[i] # "idle" =>
         /\ inv[i].kind \in {"method", "batch"}
         /\ posts[i] = 1
         /\ request[i].sent
         /\ inv[i].kind = "method" => Len(request[i].operations) = 1
    /\ pc[i] = "done" /\ callOut[i].kind = "threw" =>
         /\ posts[i] = 1
         /\ toolOut[i].kind = "responded" /\ toolOut[i].isError

\* C18 witness: the derived tool ftrack_list_projects has answered a failed
\* HTTP round trip, with one POST made.
C18_Witness ==
  \E i \in Invocations :
    /\ FromTool(i, "ftrack_list_projects")
    /\ pc[i] = "done"
    /\ HttpFailed(i)
    /\ posts[i] = 1
    /\ toolOut[i].isError

\* The batch invocation i has ended after an HTTP-ok response that parsed.
BatchAnswered(i) == FromTool(i, "ftrack_batch") /\ ParsedOk(i)

\* The server reports operation k of the batch as carried out: its result
\* is there and is no error marker.
ReportedDone(i, k) ==
  /\ k \in DOMAIN ParseJson(resp[i].body)
  /\ ~IsErrorMarker(ParseJson(resp[i].body)[k])
  /\ Truthy(ParseJson(resp[i].body)[k].j)

TaskFilters(a) ==
  <<[p |-> "project_id",
     clause |-> "project_id is \"" \o ToStr(ToolArg(a, "project_id")) \o "\""],
    [p |-> "parent_id",
     clause |-> "parent_id is \"" \o ToStr(ToolArg(a, "parent_id")) \o "\""],
    [p |-> "assignee_id",
     clause |-> "assignments any (resource_id is \""
                  \o ToStr(ToolArg(a, "assignee_id")) \o "\")"],
    [p |-> "status",
     clause |-> "status.name is \"" \o ToStr(ToolArg(a, "status")) \o "\""]>>

RECURSIVE ClausesOf(_, _)
\* The clauses of the filters whose parameter is in the set given, in order.
ClausesOf(filters, given) ==
  IF filters = <<>> THEN <<>>
  ELSE (IF Head(filters).p \in given THEN <<Head(filters).clause>> ELSE <<>>)
         \o ClausesOf(Tail(filters), given)

\* The expression the documentation of ftrack_list_tasks promises for the
\* arguments a when the filters in the set given count as supplied.
TaskExpression(a, given) ==
  LET clauses == ClausesOf(TaskFilters(a), given)
      limit == IF "limit" \in DOMAIN a THEN ToStr(a["limit"]) ELSE "100"
  IN  "select id, name, type.name, status.name, priority.name, start_date, end_date, assignments.resource.username from Task"
        \o (IF clauses = <<>> THEN "" ELSE " where " \o Join(clauses, " and "))
        \o " limit " \o limit

\* The expression the invocation i of ftrack_list_tasks has sent.
SentExpression(i) == request[i].body[1]["expression"].v[1]

\* C20 as stated: the expression of ftrack_list_tasks is the fixed
\* projection, one clause for every filter parameter that was supplied and
\* none for the others, joined by " and " in the order project_id,
\* parent_id, assignee_id, status, and " limit <limit>" (100 by default).
C20_Original ==
  \A i \in Invocations :
    FromTool(i, "ftrack_list_tasks") =>
      SentExpression(i) = TaskExpression(inv[i].targs, DOMAIN inv[i].targs)

\* C20 amended: the expression of ftrack_list_tasks is the fixed projection,
\* one clause for every filter parameter supplied with a non-empty value and
\* none for one that is not supplied or is the empty string, joined by
\* " and " in the order project_id, parent_id, assignee_id, status, and
\* " limit <limit>" (100 by default); without such a filter there is no
\* where keyword; with only status "In Progress" it ends in
\* from Task where status.name is "In Progress" limit 100.
C20_ClausePerNonEmptyFilter ==
  \A i \in Invocations :
    FromTool(i, "ftrack_list_tasks") =>
      LET a == inv[i].targs IN
      /\ SentExpression(i) =
           TaskExpression(a, {k \in DOMAIN a : a[k] # Str("")})
      /\ a = ("status" :> Str("In Progress")) =>
           SentExpression(i) =
             "select id, name, type.name, status.name, priority.name, start_date, end_date, assignments.resource.username from Task where status.name is \"In Progress\" limit 100"
      /\ a = EmptyObject =>
           SentExpression(i) =
             "select id, name, type.name, status.name, priority.name, start_date, end_date, assignments.resource.username from Task limit 100"

\* C20 witness: ftrack_list_tasks was invoked with project_id, assignee_id
\* and status and sent the three clauses in that order.
C20_Witness ==
  \E i \in Invocations :
    /\ FromTool(i, "ftrack_list_tasks")
    /\ inv[i].targs =
         ("project_id" :> Str("id1")) @@ ("assignee_id" :> Str("id1"))
           @@ ("status" :> Str("In Progress"))
    /\ SentExpression(i) =
         "select id, name, type.name, status.name, priority.name, start_date, end_date, assignments.resource.username from Task where project_id is \"id1\" and assignments any (resource_id is \"id1\") and status.name is \"In Progress\" limit 100"

\* The tool invocation i has sent one query and nothing else.
OneQuerySent(i) ==
  /\ inv[i].kind = "method" /\ inv[i].m = "query"
  /\ posts[i] = 1
  /\ Len(request[i].body) = 1
  /\ request[i].body[1]["action"] = Str("query")
  /\ DOMAIN request[i].body[1] = {"action", "expression"}

\* C21: ftrack_list_projects sends one query; its expression is the Project
\* projection, then the clause where status.name != "archived" if and only
\* if include_archived is false (also by default), then limit <limit> (100
\* by default), the limit after the clause.
C21_ArchivedClauseIffNotIncluded ==
  \A i \in Invocations :
    FromTool(i, "ftrack_list_projects") =>
      LET a == inv[i].targs
          excluded == "include_archived" \notin DOMAIN a
                        \/ a["include_archived"] = Bool("false")
          limit == IF "limit" \in DOMAIN a THEN a["limit"].v[1] ELSE "100"
      IN  /\ OneQuerySent(i)
          /\ SentExpression(i) =
               "select id, name, full_name, status, start_date, end_date from Project"
                 \o (IF excluded THEN " where status.name != \"archived\"" ELSE "")
                 \o " limit " \o limit

\* C21 witness: ftrack_list_projects was invoked without arguments and has
\* sent the expression with the clause and limit 100.
C21_Witness ==
  \E i \in Invocations :
    /\ FromTool(i, "ftrack_list_projects")
    /\ inv[i].targs = EmptyObject
    /\ SentExpression(i) =
         "select id, name, full_name, status, start_date, end_date from Project where status.name != \"archived\" limit 100"

\* C22: ftrack_get_entity sends one query select <attrs> from <entity_type>
\* where id is "<entity_id>": <attrs> is the projections joined by commas in
\* the given order when there are any, and * when the list is empty or
\* absent; the id clause is the only clause and there is no limit.
C22_EntityByIdExpression ==
  \A i \in Invocations :
    FromTool(i, "ftrack_get_entity") =>
      LET a == inv[i].targs
          attrs == IF "projections" \notin DOMAIN a THEN "*"
                   ELSE IF a["projections"] = List(<<>>) THEN "*"
                   ELSE IF a["projections"] = List(<<Str("a"), Str("b")>>)
                   THEN "a, b"
                   ELSE "?"
      IN  /\ OneQuerySent(i)
          /\ SentExpression(i) =
               "select " \o attrs \o " from " \o a["entity_type"].v[1]
                 \o " where id is \"" \o a["entity_id"].v[1] \o "\""

\* C22 witness: ftrack_get_entity was invoked with projections a, b.
C22_Witness ==
  \E i \in Invocations :
    /\ FromTool(i, "ftrack_get_entity")
    /\ inv[i].targs["entity_id"] = Str("id1")
    /\ "projections" \in DOMAIN inv[i].targs
    /\ SentExpression(i) = "select a, b from Task where id is \"id1\""

\* What call() makes of the transport's answer r (none: fetch rejected).
OutcomeOf(r) ==
  IF ~r.received THEN Threw(FetchFailedMessage)
  ELSE IF ~r.ok THEN Threw(HttpErrorMessage(r.status, r.body))
  ELSE IF IsJson(r.body) THEN CheckResults(ParseJson(r.body))
  ELSE Threw(JsonSyntaxMessage)

\* What the invocation i has sent and answered is determined by its own
\* call, its own response and the client identity.
OwnInputsOnly(i) ==
  /\ pc[i] # "idle" =>
       request[i] = PostRequest(Identity, WrapOperations(CallArgument(inv[i])))
  /\ pc[i] = "done" =>
       /\ callOut[i] = OutcomeOf(resp[i])
       /\ toolOut[i] = HandlerResponse(inv[i], OutcomeOf(resp[i]))

\* The step leaves everything of the invocation j as it is.
Untouched(j) ==
  /\ pc'[j] = pc[j] /\ inv'[j] = inv[j] /\ request'[j] = request[j]
  /\ posts'[j] = posts[j] /\ resp'[j] = resp[j]
  /\ callOut'[j] = callOut[j] /\ toolOut'[j] = toolOut[j]

\* C23: under every interleaving of pending invocations, the Operation an
\* invocation sends and the response it returns depend only on its own
\* arguments, its own transport response and the client identity, which no
\* step changes; a step of one invocation touches nothing of another.
C23_NoInterference ==
  /\ [](\A i \in Invocations : OwnInputsOnly(i))
  /\ [][ /\ client' = client
         /\ \E i \in Invocations :
              \A j \in Invocations \ {i} : Untouched(j) ]_vars

\* C23 witness: two invocations with different calls have both ended, one
\* with its results and the other with the error of its own response.
C23_Witness ==
  \E i, j \in Invocations :
    /\ pc[i] = "done" /\ pc[j] = "done"
    /\ inv[i].kind = "method" /\ inv[j].kind = "batch"
    /\ resp[i].body = JsonText(<<EData>>)
    /\ resp[j].body = JsonText(<<EData, EErrA>>)
    /\ callOut[i].kind = "returned" /\ callOut[j].kind = "threw"

C25_IdentityFixed ==
  /\ client = Identity
  /\ \A i \in Invocations :
       request[i].sent =>
         /\ request[i].method = "POST"
         /\ request[i].url = Identity.apiEndpoint
         /\ request[i].user = Identity.apiUser
         /\ request[i].key = Identity.apiKey

\* C25 witness: ftrack_assume_user has been answered, and an invocation
\* after it has sent its request with the client's own user.
C25_Witness ==
  \E i, j \in Invocations :
    /\ inv[i].m = "assumeUser" /\ pc[i] = "done"
    /\ inv[j].m = "query" /\ pc[j] = "awaitFetch"
    /\ request[j].user = "api-user"

\* C26: batch is the same primitive as execute. A batch and a direct call
\* given the same operations send the same body in one transport call each,
\* and, when the transport behaves the same for both, end with the same
\* returned sequence or the same failure.
C26_BatchIsExecute ==
  \A i \in Invocations : \A j \in Invocations :
    (/\ inv[i].kind = "batch"
     /\ inv[j].kind = "execute"
     /\ inv[i].operations = inv[j].operations)
    => /\ request[i] = request[j]
       /\ request[i].body = JsonBody(inv[i].operations)
       /\ posts[i] = 1 /\ posts[j] = 1
       /\ (pc[i] = "done" /\ pc[j] = "done" /\ resp[i] = resp[j])
            => callOut[i] = callOut[j]

\* A batch and a direct call of the same two operations have both ended with
\* the failure of the same response.
C26_Witness ==
  \E i \in Invocations : \E j \in Invocations :
    /\ inv[i].kind = "batch" /\ inv[j].kind = "execute"
    /\ inv[i].operations = inv[j].operations
    /\ Len(inv[i].operations) = 2
    /\ pc[i] = "done" /\ pc[j] = "done" /\ resp[i] = resp[j]
    /\ callOut[i].kind = "threw"
\* C27: execute given one Operation behaves as execute given the one-element
\* sequence of it: both send a one-element array with that Operation and end
\* alike on the same transport behaviour; a method that ends in executeOne
\* sends the one Operation it built and hands element 0 of the returned
\* sequence to its caller.
C27_SingleIsOneElementArray ==
  /\ \A i \in Invocations : \A j \in Invocations :
       (/\ inv[i].kind = "call"
        /\ inv[j].kind = "execute"
        /\ inv[j].operations = inv[i].operations)
       => /\ request[i] = request[j]
          /\ request[i].body = JsonBody(<<inv[i].operations[1]>>)
          /\ Len(request[i].body) = 1
          /\ (pc[i] = "done" /\ pc[j] = "done" /\ resp[i] = resp[j])
               => callOut[i] = callOut[j]
  /\ \A i \in Invocations :
       inv[i].kind = "method"
       => /\ request[i].body = JsonBody(<<BuildOp(inv[i])>>)
          /\ (pc[i] = "done" /\ callOut[i].kind = "returned")
               => /\ ~toolOut[i].isError
                  /\ toolOut[i].text[1] =
                       IF callOut[i].results = <<>>
                       THEN [s |-> "<undefined>", arr |-> <<>>]
                       ELSE [s |-> "json-value", arr |-> <<callOut[i].results[1]>>]

\* A bare Operation and the one-element array of it have both returned the
\* same one-element sequence.
C27_Witness ==
  /\ \E i \in Invocations : \E j \in Invocations :
       /\ inv[i].kind = "call" /\ inv[j].kind = "execute"
       /\ inv[j].operations = inv[i].operations
       /\ pc[i] = "done" /\ pc[j] = "done" /\ resp[i] = resp[j]
       /\ callOut[i].kind = "returned" /\ Len(callOut[i].results) = 1
\* The process is the program, started with its environment only.
ProgramStarted ==
  proc.args = <<proc.env.FTRACK_SERVER, proc.env.FTRACK_API_USER,
                proc.env.FTRACK_API_KEY>>

\* One of the three required environment values is missing.
EnvMissing ==
  \/ ~Truthy(proc.env.FTRACK_SERVER)
  \/ ~Truthy(proc.env.FTRACK_API_USER)
  \/ ~Truthy(proc.env.FTRACK_API_KEY)

\* The number of readiness lines among the given lines.
ReadinessLines(lines) ==
  Cardinality({n \in DOMAIN lines : lines[n] = ReadinessLine})

\* No tool call has been served and no HTTP call made.
NothingServed ==
  \A i \in Invocations :
    pc[i] = "idle" /\ inv[i] = NoCall /\ posts[i] = 0 /\ ~request[i].sent

FailedElement(e) == e.j # Null /\ Truthy(e.exception)

\* C29: after an HTTP-ok response execute fails exactly when some element of
\* the results is non-null with a truthy exception indicator; null, scalars,
\* lists and mappings without an exception indicator or with a falsy one
\* are success payloads, and results without a failed element are returned
\* as they came.
C29_FailedIffTruthyException ==
  \A i \in Invocations :
    ParsedOk(i) =>
      LET results == ParseJson(resp[i].body)
          failed == {k \in DOMAIN results : FailedElement(results[k])}
      IN  /\ callOut[i].kind = "threw" <=> failed # {}
          /\ failed = {} => callOut[i] = Returned(results)
          /\ failed # {} =>
               \E k \in failed :
                 callOut[i] = Threw(OperationErrorMessage(k - 1, results[k].content))

\* A null, a list and a mapping with a falsy exception indicator have been
\* returned together.
C29_Witness ==
  \E i \in Invocations :
    /\ ParsedOk(i)
    /\ ParseJson(resp[i].body) = <<ENull, EList, EFalsy>>
    /\ callOut[i] = Returned(<<ENull, EList, EFalsy>>)
\* The invocation i came from a tool that takes a free-form options mapping.
WithOptions(i) == "tool" \in DOMAIN inv[i] /\ ToolSchema(inv[i].tool).options

\* C30: no client call modifies its caller's inputs. The operation sequence
\* given to batch is sent as it is and stays as it is; the options mapping
\* given to a method that merges it is the mapping the caller passed, before
\* and after the call, and what is sent is an Operation built from it for
\* this call; no step of a call changes what its caller handed over.
C30_InputsUnchanged ==
  /\ [](\A i \in Invocations :
         pc[i] # "idle" =>
           /\ inv[i].kind = "batch" =>
                /\ request[i].operations = inv[i].operations
                /\ request[i].body = JsonBody(inv[i].operations)
           /\ WithOptions(i) =>
                /\ inv[i].options.map = DefaultOptions(inv[i].toptions)
                /\ request[i].operations = <<BuildOp(inv[i])>>
                /\ "action" \in DOMAIN request[i].operations[1])
  /\ [][\A i \in Invocations :
          (pc[i] # "idle" /\ pc'[i] # "idle") => inv'[i] = inv[i]]_vars

\* encode_media has answered a call with a preset in its options: the
\* mapping is still the one the caller passed, and the Operation sent has
\* the preset next to its own fields.
C30_Witness ==
  \E i \in Invocations :
    /\ FromTool(i, "ftrack_encode_media")
    /\ pc[i] = "done"
    /\ inv[i].toptions = Options("preset" :> Str("h264"))
    /\ inv[i].options = Options("preset" :> Str("h264"))
    /\ DOMAIN request[i].operations[1] = {"action", "component_id", "preset"}
====
